---- MODULE Spec2Model ----
(***************************************************************************)
(* A model of the POSSE browser extension (honzajavorek/posse):            *)
(*   - the coordinator of background.js (click workflow, pending-task map, *)
(*     tab events, metadata requests);                                     *)
(*   - the article extractors (blog and newsletter);                       *)
(*   - cover-file preparation of the LinkedIn injector;                    *)
(*   - the element locator waitForElement.                                 *)
(* Each part has its own specification over the one set of variables; the  *)
(* variables a specification does not use stay at their initial value.     *)
(***************************************************************************)
EXTENDS Integers, Sequences, FiniteSets, TLC

VARIABLES
    tabs,           \* target tabs of the browser: "absent", "open" or "closed"
    nextTabId,      \* the id the browser gives the next tab it creates
    pendingTasks,   \* background.js pendingTasks: tab id -> task
    wf,             \* browserAction.onClicked invocations and where each one is
    alerts,         \* window.alert calls that reached a source tab
    waiting,        \* injected script instances whose request is not yet answered
    responses,      \* per tab, the answers of runtime.onMessage in order
    ex,             \* the extractor: its input document and its outcome
    cov,            \* cover staging: the CoverImage, the file and its delivery
    we,             \* one waitForElement call
    inj,            \* the LinkedIn injector's main flow
    ttl,            \* one stageTitle call and the title field it acts on
    bdy,            \* one stageBody call and the body editor it acts on
    dsc,            \* the Discord injector and the message composer
    mnt,            \* the body maintenance watcher
    mdl,            \* one ensureCoverUploadModal call and the trigger buttons
    drp,            \* one simulateCoverDrop call and the events it dispatched
    stb             \* one waitForBodyStability call, its clock and the editor

vars == <<tabs, nextTabId, pendingTasks, wf, alerts, waiting, responses, ex, cov, we, inj, ttl, bdy, dsc, mnt, mdl, drp, stb>>

coordVars == <<tabs, nextTabId, pendingTasks, wf, alerts, waiting, responses>>

-----------------------------------------------------------------------------
(* Bounds of the model *)

MaxClicks == 1

MaxInjections == 2

-----------------------------------------------------------------------------
(* URLs.  A URL string is modelled by what `new URL(...)` makes of it: a   *)
(* missing value, a string the parser rejects, or scheme, hostname and the *)
(* pathname as a sequence of tokens, so that startsWith is a prefix test.  *)

NoUrl == [kind |-> "missing", scheme |-> "", hostname |-> "", pathname |-> << >>]

BadUrl == [kind |-> "unparsable", scheme |-> "", hostname |-> "", pathname |-> << >>]

Url(scheme, hostname, pathname) ==
    [kind |-> "url", scheme |-> scheme, hostname |-> hostname, pathname |-> pathname]

IsPrefix(p, s) == Len(p) <= Len(s) /\ \A i \in 1..Len(p) : s[i] = p[i]

StartsWithUrl(u, target) ==
    /\ u.kind = "url"
    /\ u.scheme = target.scheme
    /\ u.hostname = target.hostname
    /\ IsPrefix(target.pathname, u.pathname)

TARGET_DISCORD_URL ==
    Url("https", "discord.com", <<"/", "channels", "/", "769966886598737931", "/", "1075091413454303272">>)

TARGET_LINKEDIN_URL ==
    Url("https", "www.linkedin.com", <<"/", "article", "/", "new", "/">>)

SOURCES == <<
    [id |-> "personal-blog", hostname |-> "honzajavorek.cz", pathPrefix |-> <<"/", "blog", "/">>,
     scrapeScript |-> "scrape-article.js", openDiscord |-> TRUE],
    [id |-> "junior-guru-news", hostname |-> "junior.guru", pathPrefix |-> <<"/", "news", "/">>,
     scrapeScript |-> "scrape-junior-guru.js", openDiscord |-> FALSE] >>

NoConfig ==
    [id |-> "none", hostname |-> "", pathPrefix |-> << >>, scrapeScript |-> "", openDiscord |-> FALSE]

UNSUPPORTED_PAGE_MESSAGE == "POSSE currently supports articles on https://honzajavorek.cz/blog/ and https://junior.guru/news/."

SCRAPE_FALLBACK_MESSAGE == "POSSE: Failed to scrape article content."

NoError == [name |-> "", message |-> ""]

UnsupportedSourceError == [name |-> "POSSEUnsupportedSource", message |-> UNSUPPORTED_PAGE_MESSAGE]

BlogPostUrl == Url("https", "honzajavorek.cz", <<"/", "blog", "/", "post-1">>)

NewsIssueUrl == Url("https", "junior.guru", <<"/", "news", "/", "issue-1">>)

AboutBlankUrl == Url("about", "", <<"blank">>)

\* The URLs the active tab may show when the button is clicked.
SourceUrls ==
    { NoUrl, BadUrl,
      Url("https", "example.com", <<"/", "blog", "/", "post-1">>),
      Url("https", "honzajavorek.cz", <<"/", "about", "/">>),
      BlogPostUrl, NewsIssueUrl, AboutBlankUrl }

-----------------------------------------------------------------------------
(* background.js: resolveSourceDetails *)

MatchesSource(parsed, source) ==
    parsed.hostname = source.hostname /\ IsPrefix(source.pathPrefix, parsed.pathname)

resolveSourceDetails(urlString) ==
    IF urlString.kind = "missing"
    THEN [throws |-> TRUE, error |-> UnsupportedSourceError, config |-> NoConfig]
    ELSE IF urlString.kind = "unparsable"
    THEN [throws |-> TRUE, error |-> UnsupportedSourceError, config |-> NoConfig]
    ELSE LET found == { i \in 1..Len(SOURCES) : MatchesSource(urlString, SOURCES[i]) }
         IN IF found = {}
            THEN [throws |-> TRUE, error |-> UnsupportedSourceError, config |-> NoConfig]
            ELSE [throws |-> FALSE, error |-> NoError,
                  config |-> SOURCES[CHOOSE i \in found : \A j \in found : i <= j]]

-----------------------------------------------------------------------------
(* background.js: the browserAction.onClicked listener.  One record per    *)
(* invocation; pc is the await the invocation is suspended at.  The fields *)
(* validated, alert, scrapeRan, scrapeThrew, created and registered record *)
(* what the invocation has done so far.                                    *)

Workflows == 1..MaxClicks

\* Tab ids: the source tab of workflow w is w, the browser numbers the tabs
\* it creates from MaxClicks + 1 on (at most two per workflow).
TargetTabIds == (MaxClicks + 1)..(3 * MaxClicks)

NoTab == [hasId |-> FALSE, id |-> 0, url |-> NoUrl]

NoMetadata == [sourceUrl |-> NoUrl, originId |-> "none"]

IdleWorkflow ==
    [pc |-> "idle", tab |-> NoTab, config |-> NoConfig, error |-> NoError,
     metadata |-> NoMetadata, newTab |-> 0, validated |-> FALSE, alert |-> "none",
     scrapeRan |-> FALSE, scrapeThrew |-> FALSE, created |-> {}, registered |-> {}, outcome |-> "none",
     missedLoad |-> FALSE]

\* What tabs.executeScript(scrapeScript) settles with: the script throws
\* (with or without a message), or returns its last value.
ScrapeResults ==
    { [kind |-> "throws", message |-> "POSSE: Unable to locate the blog article wrapper.", url |-> NoUrl],
      [kind |-> "throws", message |-> "", url |-> NoUrl],
      [kind |-> "nonobject", message |-> "", url |-> NoUrl],
      [kind |-> "object", message |-> "", url |-> NoUrl],
      [kind |-> "object", message |-> "", url |-> BlogPostUrl],
      [kind |-> "object", message |-> "", url |-> AboutBlankUrl] }

\* The outer catch of the listener (lines 162-169) and its normal end.
Finish(r, error) ==
    [r EXCEPT !.pc = "done", !.error = error,
              !.outcome = IF error.name = "POSSEUnsupportedSource"
                          THEN "unsupported" ELSE "failed"]

\* Lines 120-137: from the scraped record to the first tabs.create call.
AfterScrape(r, scrapedUrl) ==
    IF scrapedUrl.kind = "missing" \/ scrapedUrl.scheme = "about"
    THEN [r EXCEPT !.pc = "done", !.outcome = "noUrl"]
    ELSE [r EXCEPT !.metadata = [sourceUrl |-> scrapedUrl, originId |-> r.config.id],
                   !.pc = IF r.config.openDiscord THEN "createDiscord" ELSE "createLinkedin"]

\* AfterDetails with the abort on an unsupported URL left out.
AfterDetailsNoAbort(r, details) ==
    LET res == resolveSourceDetails(details.url)
        r1  == [r EXCEPT !.tab = details, !.config = res.config, !.validated = TRUE]
    IN IF details.hasId
       THEN [r1 EXCEPT !.pc = "scrape", !.scrapeRan = TRUE]
       ELSE AfterScrape(r1, details.url)

\* Lines 77-93: validation of the tab's URL, up to the next await.
AfterDetails(r, details) ==
    LET res == resolveSourceDetails(details.url)
        r1  == [r EXCEPT !.tab = details, !.config = res.config, !.validated = TRUE]
    IN IF res.throws
       THEN IF details.hasId
            THEN [r1 EXCEPT !.pc = "notify", !.error = res.error]
            ELSE Finish(r1, res.error)
       ELSE IF details.hasId
            THEN [r1 EXCEPT !.pc = "scrape", !.scrapeRan = TRUE]
            ELSE AfterScrape(r1, details.url)

\* The user clicks the button on a tab: lines 71-75.
Click(w, hasId, url) ==
    /\ wf[w].pc = "idle"
    /\ LET activeTab == [hasId |-> hasId, id |-> IF hasId THEN w ELSE 0, url |-> url]
       IN wf' = [wf EXCEPT ![w] =
                    IF hasId THEN [@ EXCEPT !.pc = "get", !.tab = activeTab]
                    ELSE AfterDetails(@, activeTab)]
    /\ UNCHANGED <<tabs, nextTabId, pendingTasks, alerts, waiting, responses, ex, cov, we, inj, ttl, bdy, dsc, mnt, mdl, drp, stb>>

\* tabs.get settles: with the tab's details, or rejected (the tab is gone).
GetResolves(w) ==
    /\ wf[w].pc = "get"
    /\ wf' = [wf EXCEPT ![w] = AfterDetails(@, @.tab)]
    /\ UNCHANGED <<tabs, nextTabId, pendingTasks, alerts, waiting, responses, ex, cov, we, inj, ttl, bdy, dsc, mnt, mdl, drp, stb>>

GetRejects(w) ==
    /\ wf[w].pc = "get"
    /\ wf' = [wf EXCEPT ![w] = Finish(@, [name |-> "Error", message |-> "Invalid tab ID"])]
    /\ UNCHANGED <<tabs, nextTabId, pendingTasks, alerts, waiting, responses, ex, cov, we, inj, ttl, bdy, dsc, mnt, mdl, drp, stb>>

\* notifyUnsupportedPage (lines 54-66): executeScript of the alert settles;
\* a rejection is only logged.  Then line 82 rethrows.
NotifyReturns(w, shown) ==
    /\ wf[w].pc = "notify"
    /\ alerts' = IF shown
                 THEN alerts \cup {[tab |-> wf[w].tab.id, message |-> UNSUPPORTED_PAGE_MESSAGE]}
                 ELSE alerts
    /\ wf' = [wf EXCEPT ![w] = Finish([@ EXCEPT !.alert = IF shown THEN "shown" ELSE "failed"],
                                      @.error)]
    /\ UNCHANGED <<tabs, nextTabId, pendingTasks, waiting, responses, ex, cov, we, inj, ttl, bdy, dsc, mnt, mdl, drp, stb>>

\* ScrapeReturns going on with the tab's own URL when the script throws.
ScrapeReturnsIgnoringThrow(w, result) ==
    /\ wf[w].pc = "scrape"
    /\ wf' = [wf EXCEPT ![w] =
                 IF result.kind = "throws"
                 THEN AfterScrape([@ EXCEPT !.scrapeThrew = TRUE,
                                            !.error = [name |-> "Error", message |-> result.message]],
                                  @.tab.url)
                 ELSE AfterScrape(@, IF result.kind = "object" /\ result.url.kind # "missing"
                                     THEN result.url ELSE @.tab.url)]
    /\ UNCHANGED <<tabs, nextTabId, pendingTasks, alerts, waiting, responses, ex, cov, we, inj, ttl, bdy, dsc, mnt, mdl, drp, stb>>

\* Lines 91-118: executeScript of the scrape script settles.
ScrapeReturns(w, result) ==
    /\ wf[w].pc = "scrape"
    /\ wf' = [wf EXCEPT ![w] =
                 IF result.kind = "throws"
                 THEN [@ EXCEPT !.pc = "scrapeAlert", !.scrapeThrew = TRUE,
                                !.error = [name |-> "Error", message |-> result.message]]
                 ELSE AfterScrape(@, IF result.kind = "object" /\ result.url.kind # "missing"
                                     THEN result.url ELSE @.tab.url)]
    /\ UNCHANGED <<tabs, nextTabId, pendingTasks, alerts, waiting, responses, ex, cov, we, inj, ttl, bdy, dsc, mnt, mdl, drp, stb>>

ScrapeAlertMessage(error) ==
    IF error.message # "" THEN error.message ELSE SCRAPE_FALLBACK_MESSAGE

\* Lines 106-116: the alert about the scrape error settles, then rethrow.
ScrapeAlertReturns(w, shown) ==
    /\ wf[w].pc = "scrapeAlert"
    /\ alerts' = IF shown
                 THEN alerts \cup {[tab |-> wf[w].tab.id, message |-> ScrapeAlertMessage(wf[w].error)]}
                 ELSE alerts
    /\ wf' = [wf EXCEPT ![w] = Finish([@ EXCEPT !.alert = IF shown THEN "shown" ELSE "failed"],
                                      @.error)]
    /\ UNCHANGED <<tabs, nextTabId, pendingTasks, waiting, responses, ex, cov, we, inj, ttl, bdy, dsc, mnt, mdl, drp, stb>>

\* tabs.create: the browser opens the tab; the promise settles later.
TabOpens(w) ==
    /\ wf[w].pc \in {"createDiscord", "createLinkedin"}
    /\ wf[w].newTab = 0
    /\ nextTabId \in TargetTabIds
    /\ tabs' = [tabs EXCEPT ![nextTabId] = "open"]
    /\ nextTabId' = nextTabId + 1
    /\ wf' = [wf EXCEPT ![w] = [@ EXCEPT !.newTab = nextTabId,
                                         !.created = @ \cup {nextTabId}]]
    /\ UNCHANGED <<pendingTasks, alerts, waiting, responses, ex, cov, we, inj, ttl, bdy, dsc, mnt, mdl, drp, stb>>

CreateRejects(w) ==
    /\ wf[w].pc \in {"createDiscord", "createLinkedin"}
    /\ wf[w].newTab = 0
    /\ wf' = [wf EXCEPT ![w] = Finish(@, [name |-> "Error", message |-> "tabs.create failed"])]
    /\ UNCHANGED <<tabs, nextTabId, pendingTasks, alerts, waiting, responses, ex, cov, we, inj, ttl, bdy, dsc, mnt, mdl, drp, stb>>

MapSet(map, key, value) ==
    [k \in DOMAIN map \cup {key} |-> IF k = key THEN value ELSE map[k]]

MapDelete(map, key) == [k \in DOMAIN map \ {key} |-> map[k]]

\* Lines 143-148 and 156-161: the continuation after `await tabs.create`.
CreateResolved(w) ==
    /\ wf[w].pc \in {"createDiscord", "createLinkedin"}
    /\ wf[w].newTab # 0
    /\ LET r == wf[w]
           type == IF r.pc = "createDiscord" THEN "discord" ELSE "linkedin"
       IN /\ pendingTasks' = MapSet(pendingTasks, r.newTab,
                                    [type |-> type, payload |-> r.metadata, originId |-> r.config.id])
          /\ wf' = [wf EXCEPT ![w] =
                       [@ EXCEPT !.newTab = 0,
                                 !.registered = @ \cup {r.newTab},
                                 !.pc = IF r.pc = "createDiscord" THEN "createLinkedin" ELSE "done",
                                 !.outcome = IF r.pc = "createDiscord" THEN @ ELSE "ok"]]
    /\ UNCHANGED <<tabs, nextTabId, alerts, waiting, responses, ex, cov, we, inj, ttl, bdy, dsc, mnt, mdl, drp, stb>>

-----------------------------------------------------------------------------
(* background.js: tabs.onUpdated, runtime.onMessage, tabs.onRemoved *)

ScriptKinds == {"discord", "linkedin"}

\* The URLs a target tab may report when it finishes loading.
LoadedUrls == { TARGET_DISCORD_URL, TARGET_LINKEDIN_URL,
                Url("https", "www.linkedin.com", <<"/", "login">>) }

\* Script instances injected so far, in all tabs.
Injected(t) == Len(responses[t]) + waiting[t]["discord"] + waiting[t]["linkedin"]

InjectedTotal == LET n[ts \in SUBSET TargetTabIds] ==
                         IF ts = {} THEN 0
                         ELSE LET t == CHOOSE x \in ts : TRUE
                              IN Injected(t) + n[ts \ {t}]
                 IN n[TargetTabIds]

\* Lines 172-202: the scripts the listener injects for this event.
ScriptsToInject(tasks, tabId, status, tabUrl) ==
    IF tabId \notin DOMAIN tasks \/ status # "complete"
    THEN {}
    ELSE { k \in ScriptKinds :
             /\ tasks[tabId].type = k
             /\ StartsWithUrl(tabUrl, IF k = "discord" THEN TARGET_DISCORD_URL
                                      ELSE TARGET_LINKEDIN_URL) }

\* The tab that workflow r has asked for, whose `await tabs.create` has not
\* continued yet, finishes loading at the URL it was opened with.
LoadsBeforeRegistration(r, t, status, tabUrl) ==
    /\ r.newTab = t
    /\ status = "complete"
    /\ StartsWithUrl(tabUrl, IF r.pc = "createDiscord" THEN TARGET_DISCORD_URL
                             ELSE TARGET_LINKEDIN_URL)

\* The listener of lines 172-202 runs for an event of tab t.  missedLoad
\* records that the listener returned at line 173 for a tab under creation.
OnUpdated(t, status, tabUrl) ==
    /\ tabs[t] = "open"
    /\ LET scripts == ScriptsToInject(pendingTasks, t, status, tabUrl)
       IN /\ scripts # {} => InjectedTotal < MaxInjections
          /\ waiting' = [waiting EXCEPT ![t] =
                            [k \in ScriptKinds |-> IF k \in scripts THEN @[k] + 1 ELSE @[k]]]
    /\ wf' = [w \in Workflows |->
                 IF t \notin DOMAIN pendingTasks /\ LoadsBeforeRegistration(wf[w], t, status, tabUrl)
                 THEN [wf[w] EXCEPT !.missedLoad = TRUE] ELSE wf[w]]
    /\ UNCHANGED <<tabs, nextTabId, pendingTasks, alerts, responses, ex, cov, we, inj, ttl, bdy, dsc, mnt, mdl, drp, stb>>

\* discord-inject.js and linkedin-inject.js each send one request on start.
MessageTypeOf(kind) ==
    IF kind = "discord" THEN "POSSE_REQUEST_URL" ELSE "POSSE_REQUEST_LINKEDIN_METADATA"

\* HandleMessage without the removal of the delivered task.
HandleMessageKeepingTask(tasks, type, senderTab) ==
    LET wanted == IF type = "POSSE_REQUEST_URL" THEN "discord" ELSE "linkedin"
    IN IF type \notin {"POSSE_REQUEST_URL", "POSSE_REQUEST_LINKEDIN_METADATA"}
       THEN [answered |-> FALSE, success |-> FALSE, tasks |-> tasks]
       ELSE IF senderTab \notin DOMAIN tasks \/ tasks[senderTab].type # wanted
       THEN [answered |-> TRUE, success |-> FALSE, tasks |-> tasks]
       ELSE [answered |-> TRUE, success |-> TRUE, tasks |-> tasks]

\* Lines 204-242: the answer to a message and the task map afterwards.
HandleMessage(tasks, type, senderTab) ==
    LET wanted == IF type = "POSSE_REQUEST_URL" THEN "discord" ELSE "linkedin"
    IN IF type \notin {"POSSE_REQUEST_URL", "POSSE_REQUEST_LINKEDIN_METADATA"}
       THEN [answered |-> FALSE, success |-> FALSE, tasks |-> tasks]
       ELSE IF senderTab \notin DOMAIN tasks \/ tasks[senderTab].type # wanted
       THEN [answered |-> TRUE, success |-> FALSE, tasks |-> tasks]
       ELSE [answered |-> TRUE, success |-> TRUE, tasks |-> MapDelete(tasks, senderTab)]

\* OnMessage dropping the sender's task whatever the answer is.
OnMessageDroppingTask(t, kind) ==
    /\ waiting[t][kind] > 0
    /\ LET type == MessageTypeOf(kind)
           out  == HandleMessage(pendingTasks, type, t)
       IN /\ pendingTasks' = IF t \in DOMAIN pendingTasks THEN MapDelete(pendingTasks, t)
                             ELSE pendingTasks
          /\ responses' = [responses EXCEPT ![t] =
                              Append(@, [type |-> type,
                                         task |-> IF t \in DOMAIN pendingTasks
                                                  THEN pendingTasks[t].type ELSE "none",
                                         success |-> out.success])]
    /\ waiting' = [waiting EXCEPT ![t][kind] = @ - 1]
    /\ UNCHANGED <<tabs, nextTabId, wf, alerts, ex, cov, we, inj, ttl, bdy, dsc, mnt, mdl, drp, stb>>

\* The listener of lines 204-242 runs for the request of a script of tab t.
OnMessage(t, kind) ==
    /\ waiting[t][kind] > 0
    /\ LET type == MessageTypeOf(kind)
           out  == HandleMessage(pendingTasks, type, t)
       IN /\ pendingTasks' = out.tasks
          /\ responses' = [responses EXCEPT ![t] =
                              Append(@, [type |-> type,
                                         task |-> IF t \in DOMAIN pendingTasks
                                                  THEN pendingTasks[t].type ELSE "none",
                                         success |-> out.success])]
    /\ waiting' = [waiting EXCEPT ![t][kind] = @ - 1]
    /\ UNCHANGED <<tabs, nextTabId, wf, alerts, ex, cov, we, inj, ttl, bdy, dsc, mnt, mdl, drp, stb>>

\* Lines 244-248: a target tab is closed and the listener runs.
OnRemoved(t) ==
    /\ tabs[t] = "open"
    /\ tabs' = [tabs EXCEPT ![t] = "closed"]
    /\ pendingTasks' = IF t \in DOMAIN pendingTasks THEN MapDelete(pendingTasks, t)
                       ELSE pendingTasks
    /\ UNCHANGED <<nextTabId, wf, alerts, waiting, responses, ex, cov, we, inj, ttl, bdy, dsc, mnt, mdl, drp, stb>>

-----------------------------------------------------------------------------
(* The other parts, idle *)

IdleExtractor == [pc |-> "idle"]

IdleCover == [pc |-> "idle"]

IdleWait == [pc |-> "idle"]

IdleInjector == [pc |-> "idle"]

IdleTitle == [pc |-> "idle"]

IdleBody == [pc |-> "idle"]

IdleDiscord == [pc |-> "idle"]

IdleWatcher == [pc |-> "idle"]

IdleModal == [pc |-> "idle"]

IdleDrop == [pc |-> "idle"]

IdleStability == [pc |-> "idle"]

-----------------------------------------------------------------------------
(* The coordinator *)

Init ==
    /\ tabs = [t \in TargetTabIds |-> "absent"]
    /\ nextTabId = MaxClicks + 1
    /\ pendingTasks = << >>
    /\ wf = [w \in Workflows |-> IdleWorkflow]
    /\ alerts = {}
    /\ waiting = [t \in TargetTabIds |-> [k \in ScriptKinds |-> 0]]
    /\ responses = [t \in TargetTabIds |-> << >>]
    /\ inj = IdleInjector
    /\ ttl = IdleTitle
    /\ bdy = IdleBody
    /\ dsc = IdleDiscord
    /\ mnt = IdleWatcher
    /\ mdl = IdleModal
    /\ drp = IdleDrop
    /\ stb = IdleStability
    /\ ex = IdleExtractor
    /\ cov = IdleCover
    /\ we = IdleWait

Next ==
    \/ \E w \in Workflows, hasId \in BOOLEAN, url \in SourceUrls : Click(w, hasId, url)
    \/ \E w \in Workflows : GetResolves(w)
    \/ \E w \in Workflows : GetRejects(w)
    \/ \E w \in Workflows, shown \in BOOLEAN : NotifyReturns(w, shown)
    \/ \E w \in Workflows, result \in ScrapeResults : ScrapeReturns(w, result)
    \/ \E w \in Workflows, shown \in BOOLEAN : ScrapeAlertReturns(w, shown)
    \/ \E w \in Workflows : TabOpens(w)
    \/ \E w \in Workflows : CreateRejects(w)
    \/ \E w \in Workflows : CreateResolved(w)
    \/ \E t \in TargetTabIds, status \in {"loading", "complete"}, tabUrl \in LoadedUrls :
          OnUpdated(t, status, tabUrl)
    \/ \E t \in TargetTabIds, kind \in ScriptKinds : OnMessage(t, kind)
    \/ \E t \in TargetTabIds : OnRemoved(t)

Spec == Init /\ [][Next]_vars

-----------------------------------------------------------------------------
(* Claims about the coordinator *)

WantedType(type) == IF type = "POSSE_REQUEST_URL" THEN "discord" ELSE "linkedin"

\* C1: for every target tab the pending task is delivered to at most one
\* requester: a request is answered success:true exactly when the tab's task
\* of the requested kind is pending, the task is gone from the map in the
\* state that delivery produces, and every later request of the tab is
\* answered success:false.
C1_AtMostOnceDelivery ==
    \A t \in TargetTabIds :
        LET r == responses[t]
        IN /\ \A i \in 1..Len(r) : r[i].success <=> (r[i].task = WantedType(r[i].type))
           /\ \A i, j \in 1..Len(r) : (i < j /\ r[i].success) => ~r[j].success
           /\ (\E i \in 1..Len(r) : r[i].success) => t \notin DOMAIN pendingTasks

\* C1 witness: a tab whose first request was delivered and whose second was refused.
C1_Witness ==
    \E t \in TargetTabIds :
        /\ Len(responses[t]) = 2
        /\ responses[t][1].success
        /\ ~responses[t][2].success

\* C2: after a target tab is closed no pending task keyed by its id exists.
C2_ClosedTabHasNoTask ==
    \A t \in TargetTabIds : tabs[t] = "closed" => t \notin DOMAIN pendingTasks

Unsupported(w) == wf[w].validated /\ resolveSourceDetails(wf[w].tab.url).throws

Aborted(w) ==
    /\ ~wf[w].scrapeRan
    /\ wf[w].created = {}
    /\ wf[w].registered = {}
    /\ wf[w].pc \in {"notify", "done"}

AlertsOn(tabId) == { a \in alerts : a.tab = tabId }

\* C3 as stated: a click on a tab (one with a numeric id) with a missing,
\* unparsable or unsupported URL ends with the fixed unsupported-page alert
\* shown to the user, no scrape script run, no target tab opened and no task
\* registered.
C3_UnsupportedAlwaysNotified ==
    \A w \in Workflows :
        (Unsupported(w) /\ wf[w].tab.hasId) =>
            /\ Aborted(w)
            /\ wf[w].pc = "done" =>
                  [tab |-> wf[w].tab.id, message |-> UNSUPPORTED_PAGE_MESSAGE] \in alerts

\* C3 amended: the workflow aborts in every case (no scrape script, no
\* target tab, no task registered, ends in the unsupported-source branch);
\* the alert with the fixed message is attempted exactly when the tab has a
\* numeric id, and it is shown exactly when that script injection succeeds.
C3_UnsupportedAborts ==
    \A w \in Workflows :
        Unsupported(w) =>
            /\ Aborted(w)
            /\ wf[w].pc = "done" =>
                  /\ wf[w].outcome = "unsupported"
                  /\ wf[w].tab.hasId <=> wf[w].alert \in {"shown", "failed"}
                  /\ wf[w].alert = "shown" <=>
                        AlertsOn(wf[w].tab.id) =
                            {[tab |-> wf[w].tab.id, message |-> UNSUPPORTED_PAGE_MESSAGE]}
                  /\ wf[w].alert # "shown" <=> AlertsOn(wf[w].tab.id) = {}

\* C3 witness: an unsupported click has ended with the alert shown.
C3_Witness ==
    \E w \in Workflows :
        /\ Unsupported(w)
        /\ wf[w].pc = "done"
        /\ wf[w].alert = "shown"
        /\ wf[w].tab.url.kind = "url"

\* C4 as stated: when the scrape script throws, the error is shown in an
\* alert on the source tab and the workflow aborts without opening a tab or
\* registering a task.
C4_ScrapeErrorAlwaysAlerted ==
    \A w \in Workflows :
        wf[w].scrapeThrew =>
            /\ wf[w].created = {}
            /\ wf[w].registered = {}
            /\ wf[w].pc = "done" => \E a \in alerts : a.tab = wf[w].tab.id

\* C4 amended: when the scrape script throws, the workflow aborts (no tab
\* opened, no task registered, general-failure branch); an alert on the
\* source tab is attempted, carrying the error's message or the fixed
\* fallback text when the error has none, and it is shown exactly when the
\* script injection of the alert succeeds.
C4_ScrapeErrorAborts ==
    \A w \in Workflows :
        wf[w].scrapeThrew =>
            /\ wf[w].created = {}
            /\ wf[w].registered = {}
            /\ wf[w].pc \in {"scrapeAlert", "done"}
            /\ wf[w].pc = "done" =>
                  /\ wf[w].outcome = "failed"
                  /\ wf[w].alert \in {"shown", "failed"}
                  /\ wf[w].alert = "shown" <=>
                        AlertsOn(wf[w].tab.id) =
                            {[tab |-> wf[w].tab.id,
                              message |-> IF wf[w].error.message # ""
                                          THEN wf[w].error.message
                                          ELSE SCRAPE_FALLBACK_MESSAGE]}
                  /\ wf[w].alert = "failed" <=> AlertsOn(wf[w].tab.id) = {}

\* C4 witness: a scrape error has been shown and the workflow has ended.
C4_Witness ==
    \E w \in Workflows :
        /\ wf[w].scrapeThrew
        /\ wf[w].pc = "done"
        /\ wf[w].alert = "shown"
        /\ wf[w].error.message # ""

\* C38: for each pending task the coordinator injects the staging script
\* into the target tab at most once, however often the tab reports that it
\* has finished loading before the task is consumed.
C38_OneInjectionPerTab ==
    \A t \in TargetTabIds : Injected(t) <= 1

\* C39: no target tab finishes loading at its target URL before its
\* pending task is registered, so no load-complete event of an opened tab
\* is dropped for want of a task.
C39_RegisteredBeforeLoadHandled ==
    \A w \in Workflows : ~wf[w].missedLoad

-----------------------------------------------------------------------------
(* runtime.onMessage on its own: any task map, any requests waiting to be   *)
(* handled, whichever script sent them.                                     *)

TaskOf(type) == [type |-> type, payload |-> [sourceUrl |-> BlogPostUrl, originId |-> "personal-blog"],
                 originId |-> "personal-blog"]

TaskMaps ==
    UNION { [ts -> { TaskOf(k) : k \in ScriptKinds }] : ts \in SUBSET TargetTabIds }

InitMessage ==
    /\ tabs = [t \in TargetTabIds |-> "open"]
    /\ nextTabId = 3 * MaxClicks + 1
    /\ pendingTasks \in TaskMaps
    /\ wf = [w \in Workflows |-> IdleWorkflow]
    /\ alerts = {}
    /\ waiting \in [TargetTabIds -> [ScriptKinds -> {0, 1}]]
    /\ responses = [t \in TargetTabIds |-> << >>]
    /\ ex = IdleExtractor
    /\ cov = IdleCover
    /\ we = IdleWait
    /\ inj = IdleInjector
    /\ ttl = IdleTitle
    /\ bdy = IdleBody
    /\ dsc = IdleDiscord
    /\ mnt = IdleWatcher
    /\ mdl = IdleModal
    /\ drp = IdleDrop
    /\ stb = IdleStability

NextMessage == \E t \in TargetTabIds, kind \in ScriptKinds : OnMessage(t, kind)

SpecMessage == InitMessage /\ [][NextMessage]_vars

Last(seq) == seq[Len(seq)]

\* C40: a metadata request whose kind does not match the pending task of
\* the sending tab, or one from a tab with no task, is answered
\* success:false and leaves the pending-task map unchanged; the task is
\* still delivered to a later matching request.
C40_MismatchLeavesTask ==
    /\ [](\A t \in TargetTabIds : \A i \in 1..Len(responses[t]) :
            responses[t][i].task # WantedType(responses[t][i].type) => ~responses[t][i].success)
    /\ [][\A t \in TargetTabIds :
            (Len(responses'[t]) = Len(responses[t]) + 1 /\
             Last(responses'[t]).task # WantedType(Last(responses'[t]).type))
            => pendingTasks' = pendingTasks]_vars
    /\ [][\A t \in TargetTabIds :
            (Len(responses'[t]) = Len(responses[t]) + 1 /\ t \in DOMAIN pendingTasks /\
             pendingTasks[t].type = WantedType(Last(responses'[t]).type))
            => Last(responses'[t]).success]_vars

C40_Witness ==
    \E t \in TargetTabIds :
        /\ Len(responses[t]) = 2
        /\ responses[t][1] = [type |-> "POSSE_REQUEST_URL", task |-> "linkedin", success |-> FALSE]
        /\ responses[t][2] = [type |-> "POSSE_REQUEST_LINKEDIN_METADATA", task |-> "linkedin",
                              success |-> TRUE]

-----------------------------------------------------------------------------
(* The article extractors: the blog extractor (scrape-article.js in its    *)
(* version with cover extraction) and the newsletter extractor             *)
(* (scrape-junior-guru.js).                                                *)
(*                                                                         *)
(* A URL-bearing attribute value is a reference: absent, or an origin      *)
(* (empty when the reference is relative) and a path.  The article body is *)
(* a sequence of blocks; a block is a figure, a paragraph or a bare image  *)
(* (an img that is a direct child of the body), with the src attributes of *)
(* the images inside it in document order, or an admonition (a div with   *)
(* role="alert" or role="status").                                         *)

MaxBlocks == 2

NoRef == [present |-> FALSE, origin |-> "", path |-> ""]

Ref(origin, path) == [present |-> TRUE, origin |-> origin, path |-> path]

OriginOf(url) == "https://" \o url.hostname

\* An attribute that is there with an empty value (`src=""`): for the code
\* as falsy as a missing one.
EmptyRef == NoRef

\* A value the URL parser rejects whatever the base ("https://exa mple/x").
InvalidRef == Ref("https://exa mple", "/x")

\* toAbsoluteUrl: new URL(url, baseUrl).href; "" (NoRef) for a missing or
\* empty value and from the catch block.
toAbsoluteUrl(ref, baseUrl) ==
    IF ~ref.present \/ ref = InvalidRef THEN NoRef
    ELSE IF ref.origin = "" THEN Ref(OriginOf(baseUrl), ref.path)
    ELSE ref

\* absolutizeAttribute: the attribute value after sanitizeClone; an empty
\* value and one the URL parser rejects are left as they are.
absolutizeAttribute(ref, baseUrl) ==
    IF ~ref.present \/ ref = InvalidRef THEN ref ELSE toAbsoluteUrl(ref, baseUrl)

BlogExtractor ==
    [id |-> "blog", hostname |-> "honzajavorek.cz", pathPrefix |-> <<"/", "blog", "/">>]

NewsletterExtractor ==
    [id |-> "newsletter", hostname |-> "junior.guru", pathPrefix |-> <<"/", "news", "/">>]

\* ensureSupportedUrl with the test of the path prefix left out.
ensureHostnameOnly(extractor, urlString) ==
    urlString.kind = "url" /\ urlString.hostname = extractor.hostname

\* ensureBlogUrl / ensureSupportedUrl: TRUE when the URL is returned, FALSE
\* when Error(UNSUPPORTED_PAGE_MESSAGE) is thrown.
ensureSupportedUrl(extractor, urlString) ==
    /\ urlString.kind = "url"
    /\ urlString.hostname = extractor.hostname
    /\ IsPrefix(extractor.pathPrefix, urlString.pathname)

NoCover == [present |-> FALSE, url |-> NoRef]

NoRecord == [url |-> NoUrl, title |-> "", bodyHtml |-> << >>, coverImage |-> NoCover]

Threw(message) == [status |-> "threw", message |-> message, record |-> NoRecord]

Returned(record) == [status |-> "returned", message |-> "", record |-> record]

COVER_MISMATCH_MESSAGE == "POSSE: First article image does not match og:image."

NO_IMAGES_MESSAGE == "POSSE: Unable to find any images in the article body."

Block(kind, srcs) == [kind |-> kind, srcs |-> srcs, role |-> "none", inner |-> "none"]

\* An admonition: a div with role="alert" or role="status" around a
\* paragraph; inner is the role of an admonition nested inside it, if any.
Admonition(role, inner) == [kind |-> "div", srcs |-> << >>, role |-> role, inner |-> inner]

\* querySelectorAll('img'): the images of the body in document order, each
\* with the index of the block that holds it.
RECURSIVE ImagesFrom(_, _)
ImagesFrom(body, i) ==
    IF i > Len(body) THEN << >>
    ELSE [k \in 1..Len(body[i].srcs) |-> [block |-> i, src |-> body[i].srcs[k]]]
         \o ImagesFrom(body, i + 1)

Images(body) == ImagesFrom(body, 1)

RemoveAt(seq, i) == [k \in 1..(Len(seq) - 1) |-> IF k < i THEN seq[k] ELSE seq[k + 1]]

InsertAfter(seq, i, x) ==
    [k \in 1..(Len(seq) + 1) |-> IF k <= i THEN seq[k] ELSE IF k = i + 1 THEN x ELSE seq[k - 1]]

\* sanitizeClone: every src of the clone made absolute.
sanitizeClone(body, baseUrl) ==
    [i \in 1..Len(body) |->
        [body[i] EXCEPT !.srcs =
            [k \in 1..Len(body[i].srcs) |-> absolutizeAttribute(body[i].srcs[k], baseUrl)]]]

\* convertAdmonitionsToBlockquotes (part_004 lines 175-182): every node of
\* the static list is replaced by a blockquote with a copy of its inner
\* markup.  A nested admonition is replaced inside its detached parent;
\* the copy of it inside the new blockquote keeps its role.
convertAdmonitionsToBlockquotes(clone) ==
    [i \in 1..Len(clone) |->
        IF clone[i].role # "none"
        THEN [clone[i] EXCEPT !.kind = "blockquote", !.role = "none"]
        ELSE clone[i]]

CalloutBlock == Block("blockquote", << >>)

FooterBlock == Block("blockquote", << >>)

\* insertLinkedinSubscriptionCallout: a blockquote after the figure or
\* parent of the first image whose src is the cover URL; a bare image's
\* parent is the clone itself, which has no parent node.
insertLinkedinSubscriptionCallout(clone, coverImageUrlAbsolute, baseUrl) ==
    LET imgs == Images(clone)
        hits == { k \in 1..Len(imgs) :
                    /\ imgs[k].src.present
                    /\ toAbsoluteUrl(imgs[k].src, baseUrl) = coverImageUrlAbsolute }
    IN IF hits = {} THEN clone
       ELSE LET first == CHOOSE k \in hits : \A j \in hits : k <= j
                b == imgs[first].block
            IN IF clone[b].kind = "img" THEN clone
               ELSE InsertAfter(clone, b, CalloutBlock)

\* extractCoverImage with the comparison of the first image left out.
extractCoverImageUnchecked(articleBody, articleClone, coverImageUrlAbsolute, baseUrl) ==
    LET cloneImages == Images(articleClone)
    IN IF cloneImages = << >>
       THEN [throws |-> TRUE, message |-> NO_IMAGES_MESSAGE, clone |-> articleClone, url |-> NoRef]
       ELSE [throws |-> FALSE, message |-> "",
             clone |-> IF articleClone[cloneImages[1].block].kind = "img" THEN articleClone
                       ELSE RemoveAt(articleClone, cloneImages[1].block),
             url |-> coverImageUrlAbsolute]

\* extractCoverImage (blog): the first image of the original body must be
\* the og:image; the figure or parent of the image at the same index of the
\* clone is removed (removing the clone itself does nothing).
extractCoverImage(articleBody, articleClone, coverImageUrlAbsolute, baseUrl) ==
    LET originalImages == Images(articleBody)
        cloneImages == Images(articleClone)
    IN IF originalImages = << >> \/ cloneImages = << >>
       THEN [throws |-> TRUE, message |-> NO_IMAGES_MESSAGE, clone |-> articleClone, url |-> NoRef]
       ELSE LET firstOriginalAbsolute == toAbsoluteUrl(originalImages[1].src, baseUrl)
            IN IF ~firstOriginalAbsolute.present \/ firstOriginalAbsolute # coverImageUrlAbsolute
               THEN [throws |-> TRUE, message |-> COVER_MISMATCH_MESSAGE,
                     clone |-> articleClone, url |-> NoRef]
               ELSE LET matches == { k \in 1..Len(originalImages) :
                                       /\ originalImages[k].src.present
                                       /\ toAbsoluteUrl(originalImages[k].src, baseUrl)
                                             = coverImageUrlAbsolute }
                        matchIndex == CHOOSE k \in matches : \A j \in matches : k <= j
                        b == cloneImages[matchIndex].block
                    IN [throws |-> FALSE, message |-> "",
                        clone |-> IF articleClone[b].kind = "img" THEN articleClone
                                  ELSE RemoveAt(articleClone, b),
                        url |-> coverImageUrlAbsolute]

\* The blog extractor's main sequence (part_004 lines 25, 423-446).
ExtractBlog(doc) ==
    IF ~ensureSupportedUrl(BlogExtractor, doc.location)
    THEN Threw(UNSUPPORTED_PAGE_MESSAGE)
    ELSE IF doc.structure = "noRoot"
    THEN Threw("POSSE: Unable to locate the blog article wrapper.")
    ELSE IF doc.structure = "noBody"
    THEN Threw("POSSE: Unable to locate the blog article body.")
    ELSE IF ~doc.ogImage.present
    THEN Threw("POSSE: Unable to locate og:image metadata on the blog page.")
    ELSE IF doc.structure = "noTitle"
    THEN Threw("POSSE: Unable to locate the blog article title.")
    ELSE IF doc.structure = "emptyTitle"
    THEN Threw("POSSE: Blog article title is empty.")
    ELSE IF doc.canonical.kind # "missing" /\ ~ensureSupportedUrl(BlogExtractor, doc.canonical)
    THEN Threw(UNSUPPORTED_PAGE_MESSAGE)
    ELSE LET baseUrl == doc.location
             coverImageUrlAbsolute == toAbsoluteUrl(doc.ogImage, baseUrl)
             canonicalUrl == IF doc.canonical.kind # "missing" THEN doc.canonical
                             ELSE doc.location
             sanitized == sanitizeClone(doc.body, baseUrl)
             articleClone == convertAdmonitionsToBlockquotes(
                                 insertLinkedinSubscriptionCallout(sanitized, coverImageUrlAbsolute,
                                                                   baseUrl))
             cover == extractCoverImage(doc.body, articleClone, coverImageUrlAbsolute, baseUrl)
         IN IF cover.throws THEN Threw(cover.message)
            ELSE Returned([url |-> canonicalUrl, title |-> "Hello",
                           bodyHtml |-> Append(cover.clone, FooterBlock),
                           coverImage |-> [present |-> TRUE, url |-> cover.url]])

\* injectSubscriptionBlockquote: the first paragraph becomes a blockquote.
injectSubscriptionBlockquote(clone) ==
    LET ps == { i \in 1..Len(clone) : clone[i].kind = "p" }
    IN IF ps = {} THEN clone
       ELSE LET first == CHOOSE i \in ps : \A j \in ps : i <= j
            IN [clone EXCEPT ![first] = Block("blockquote", << >>)]

\* buildBodyHtml (scrape-junior-guru.js lines 408-425).
buildBodyHtml(issueElement, baseUrl) ==
    Append(injectSubscriptionBlockquote(sanitizeClone(issueElement, baseUrl)), FooterBlock)

\* The newsletter extractor's main sequence (lines 25, 527-545).
ExtractNewsletter(doc) ==
    IF ~ensureSupportedUrl(NewsletterExtractor, doc.location)
    THEN Threw(UNSUPPORTED_PAGE_MESSAGE)
    ELSE IF doc.structure = "noRoot"
    THEN Threw("POSSE: Unable to locate the newsletter issue container.")
    ELSE IF doc.structure = "noTitle"
    THEN Threw("POSSE: Unable to locate the newsletter title.")
    ELSE IF doc.structure = "emptyTitle"
    THEN Threw("POSSE: Newsletter title is empty.")
    ELSE IF doc.canonical.kind # "missing" /\ ~ensureSupportedUrl(NewsletterExtractor, doc.canonical)
    THEN Threw(UNSUPPORTED_PAGE_MESSAGE)
    ELSE IF ~doc.ogImage.present
    THEN Threw("POSSE: Unable to locate og:image metadata on the newsletter page.")
    ELSE LET baseUrl == doc.location
             canonicalUrl == IF doc.canonical.kind # "missing" THEN doc.canonical
                             ELSE doc.location
             ogImageUrl == toAbsoluteUrl(doc.ogImage, baseUrl)
         IN Returned([url |-> canonicalUrl, title |-> "Hello",
                      bodyHtml |-> buildBodyHtml(doc.body, baseUrl),
                      coverImage |-> [present |-> TRUE, url |-> ogImageUrl]])

\* The documents the extractors are run on.
DocLocations ==
    { BlogPostUrl, NewsIssueUrl,
      Url("https", "honzajavorek.cz", <<"/", "about", "/">>),
      Url("https", "junior.guru", <<"/", "handbook", "/">>),
      Url("https", "example.com", <<"/", "blog", "/", "post-1">>) }

BlogCanonicalUrl == Url("https", "honzajavorek.cz", <<"/", "blog", "/", "post-1", "/">>)

DocCanonicals == { NoUrl, BlogCanonicalUrl, NewsIssueUrl }

CoverRelative == Ref("", "/img/cover.jpg")

DocOgImages == { NoRef, CoverRelative, Ref("https://cdn.example", "/img/cover.jpg") }

DocSrcs ==
    { CoverRelative, Ref("https://honzajavorek.cz", "/img/cover.jpg"),
      Ref("https://junior.guru", "/img/cover.jpg"), Ref("", "/img/other.jpg") }

DocBlocks ==
    { Block("p", << >>) } \cup
    { Block(kind, <<src>>) : kind \in {"figure", "p", "img"}, src \in DocSrcs } \cup
    { Block("figure", <<EmptyRef>>), Block("figure", <<InvalidRef>>) } \cup
    { Admonition("alert", "none"), Admonition("status", "none"), Admonition("alert", "status") }

DocStructures == { "ok", "noRoot", "noBody", "noTitle", "emptyTitle" }

RECURSIVE SeqsUpTo(_, _)
SeqsUpTo(S, n) ==
    IF n = 0 THEN { << >> }
    ELSE LET shorter == SeqsUpTo(S, n - 1)
         IN shorter \cup { Append(q, x) : q \in shorter, x \in S }

Docs ==
    [location : DocLocations, canonical : DocCanonicals, ogImage : DocOgImages,
     structure : DocStructures, body : SeqsUpTo(DocBlocks, MaxBlocks)]

NoResult == [status |-> "none", message |-> "", record |-> NoRecord]

InitExtract ==
    /\ tabs = [t \in TargetTabIds |-> "absent"]
    /\ nextTabId = MaxClicks + 1
    /\ pendingTasks = << >>
    /\ wf = [w \in Workflows |-> IdleWorkflow]
    /\ alerts = {}
    /\ waiting = [t \in TargetTabIds |-> [k \in ScriptKinds |-> 0]]
    /\ responses = [t \in TargetTabIds |-> << >>]
    /\ inj = IdleInjector
    /\ ttl = IdleTitle
    /\ bdy = IdleBody
    /\ dsc = IdleDiscord
    /\ mnt = IdleWatcher
    /\ mdl = IdleModal
    /\ drp = IdleDrop
    /\ stb = IdleStability
    /\ ex \in [pc : {"ready"}, doc : Docs, extractor : {"none"}, result : {NoResult},
               live : {<< >>}, second : {NoResult}]
    /\ cov = IdleCover
    /\ we = IdleWait

\* The extractor's function on a document.
Extract(extractor, doc) ==
    IF extractor = "blog" THEN ExtractBlog(doc) ELSE ExtractNewsletter(doc)

\* The body of the live page after a run in which the transforms were
\* applied to the live body itself instead of a clone.
LiveBodyWithoutClone(extractor, doc) ==
    IF Extract(extractor, doc).status = "returned"
    THEN Extract(extractor, doc).record.bodyHtml
    ELSE doc.body

\* The body of the live page after a run: `articleBody.cloneNode(true)`
\* (part_004 line 425) and `issueElement.cloneNode(true)` (scrape-junior-
\* guru.js line 409) come first, and every later write goes to the clone.
LiveBodyAfter(extractor, doc) == doc.body

RunBlogExtractor ==
    /\ ex.pc = "ready"
    /\ ex' = [ex EXCEPT !.pc = "done", !.extractor = "blog", !.result = ExtractBlog(ex.doc),
                        !.live = LiveBodyAfter("blog", ex.doc)]
    /\ UNCHANGED <<coordVars, cov, we, inj, ttl, bdy, dsc, mnt, mdl, drp, stb>>

RunNewsletterExtractor ==
    /\ ex.pc = "ready"
    /\ ex' = [ex EXCEPT !.pc = "done", !.extractor = "newsletter",
                        !.result = ExtractNewsletter(ex.doc),
                        !.live = LiveBodyAfter("newsletter", ex.doc)]
    /\ UNCHANGED <<coordVars, cov, we, inj, ttl, bdy, dsc, mnt, mdl, drp, stb>>

\* The same extractor is run once more on the page as the first run left
\* it.
RunExtractorAgain ==
    /\ ex.pc = "done"
    /\ LET page == [ex.doc EXCEPT !.body = ex.live]
       IN ex' = [ex EXCEPT !.pc = "again", !.second = Extract(ex.extractor, page),
                           !.live = LiveBodyAfter(ex.extractor, page)]
    /\ UNCHANGED <<coordVars, cov, we, inj, ttl, bdy, dsc, mnt, mdl, drp, stb>>

NextExtract == RunBlogExtractor \/ RunNewsletterExtractor \/ RunExtractorAgain

SpecExtract == InitExtract /\ [][NextExtract]_vars

-----------------------------------------------------------------------------
(* Claims about the extractors *)

\* The entry of the supported source table an extractor serves.
SourceOf(extractor) == IF extractor = "blog" THEN SOURCES[1] ELSE SOURCES[2]

FirstImageMismatch(doc) ==
    /\ Images(doc.body) # << >>
    /\ doc.ogImage.present
    /\ toAbsoluteUrl(Images(doc.body)[1].src, doc.location)
          # toAbsoluteUrl(doc.ogImage, doc.location)

\* Nothing but the cover can make the extraction of this document fail.
OtherwiseExtractable(doc, extractor) ==
    /\ MatchesSource(doc.location, SourceOf(extractor))
    /\ doc.structure = "ok" \/ (doc.structure = "noBody" /\ extractor = "newsletter")
    /\ doc.ogImage.present
    /\ doc.canonical.kind # "missing" => MatchesSource(doc.canonical, SourceOf(extractor))

\* C5: an extractor run on a document whose URL has an unsupported hostname
\* or path prefix throws the error with the unsupported-page message and
\* returns no record, complete or partial.
C5_UnsupportedSourceThrows ==
    (ex.pc = "done" /\ ~MatchesSource(ex.doc.location, SourceOf(ex.extractor))) =>
        /\ ex.result.status = "threw"
        /\ ex.result.message = UNSUPPORTED_PAGE_MESSAGE
        /\ ex.result.record = NoRecord

\* C5 witness: the blog extractor has run on a page of the blog's host
\* outside /blog/ that has all the markup of an article.
C5_Witness ==
    /\ ex.pc = "done"
    /\ ex.extractor = "blog"
    /\ ex.doc.location = Url("https", "honzajavorek.cz", <<"/", "about", "/">>)
    /\ ex.doc.structure = "ok"
    /\ ex.doc.ogImage.present
    /\ ex.result.status = "threw"

C7_CoverNotInBody ==
    (ex.pc = "done" /\ ex.result.status = "returned" /\ ex.result.record.coverImage.present) =>
        \A k \in 1..Len(Images(ex.result.record.bodyHtml)) :
            toAbsoluteUrl(Images(ex.result.record.bodyHtml)[k].src, ex.doc.location)
                # ex.result.record.coverImage.url

IsAbsoluteUrl(ref) == ref.present /\ ref.origin # "" /\ ref # InvalidRef

\* C18: every src, href and poster value in the returned bodyHtml is an
\* absolute URL.
C18_BodyUrlsAbsolute ==
    (ex.pc = "done" /\ ex.result.status = "returned") =>
        \A i \in 1..Len(ex.result.record.bodyHtml) :
            \A k \in 1..Len(ex.result.record.bodyHtml[i].srcs) :
                IsAbsoluteUrl(ex.result.record.bodyHtml[i].srcs[k])

\* C19: the returned bodyHtml has no element with role="alert" or
\* role="status", at the top of the body or nested in an admonition.
C19_NoAdmonitionRoleLeft ==
    (ex.pc = "done" /\ ex.result.status = "returned") =>
        \A i \in 1..Len(ex.result.record.bodyHtml) :
            /\ ex.result.record.bodyHtml[i].role = "none"
            /\ ex.result.record.bodyHtml[i].inner = "none"

\* C20: the record's url is the canonical link's URL when the page has one
\* that is a supported source URL, and the page URL in every other case,
\* also when the canonical link is not a supported source URL.
C20_CanonicalElseCurrent ==
    (/\ ex.pc = "done"
     /\ MatchesSource(ex.doc.location, SourceOf(ex.extractor))
     /\ ex.doc.structure = "ok"
     /\ ex.doc.ogImage.present
     /\ ex.extractor = "blog" => ~FirstImageMismatch(ex.doc) /\ Images(ex.doc.body) # << >>) =>
        /\ ex.result.status = "returned"
        /\ ex.result.record.url =
               IF ex.doc.canonical.kind # "missing"
                  /\ MatchesSource(ex.doc.canonical, SourceOf(ex.extractor))
               THEN ex.doc.canonical ELSE ex.doc.location

\* C21: on a supported page that declares no reference image, extraction
\* returns a record without a cover image.
C21_NoCoverDeclaredStillExtracts ==
    (/\ ex.pc = "done"
     /\ MatchesSource(ex.doc.location, SourceOf(ex.extractor))
     /\ ex.doc.structure = "ok"
     /\ ex.doc.canonical.kind # "missing" =>
            MatchesSource(ex.doc.canonical, SourceOf(ex.extractor))
     /\ ~ex.doc.ogImage.present) =>
        /\ ex.result.status = "returned"
        /\ ~ex.result.record.coverImage.present

-----------------------------------------------------------------------------
(* Cover staging in the LinkedIn injector: how the file is built from the  *)
(* CoverImage and what is handed to the delivery step.  Two versions of    *)
(* stageCoverImage exist: linkedin-inject.js ("strategies": the file goes  *)
(* from buildCoverFile to the delivery strategies) and the file-input      *)
(* version of part_003 ("fileInput": ensureCoverFileCompatibility sits     *)
(* between buildCoverFile and injectFileIntoInput).                        *)

MimeTypes == { "image/jpeg", "image/png", "image/webp", "image/gif" }

AcceptedTypes == { "image/jpeg", "image/png" }

NoDataUrl == [present |-> FALSE, decodable |-> FALSE, mime |-> ""]

DataUrls ==
    { NoDataUrl } \cup [present : {TRUE}, decodable : BOOLEAN, mime : MimeTypes]

NoFile == [present |-> FALSE, type |-> "", source |-> "none"]

File(type, source) == [present |-> TRUE, type |-> type, source |-> source]

\* guessMimeTypeFromFileName, by the file name's extension.
guessMimeTypeFromFileName(extension) ==
    CASE extension = ".png" -> "image/png"
      [] extension = ".webp" -> "image/webp"
      [] extension = ".gif" -> "image/gif"
      [] extension = ".svg" -> "image/svg+xml"
      [] OTHER -> "image/jpeg"

\* deriveCoverFileName: the extension of the name it derives.
deriveCoverFileName(coverImage) ==
    IF coverImage.fileName # "" THEN coverImage.fileName
    ELSE IF coverImage.hasUrl THEN coverImage.urlExtension
    ELSE ".jpg"

\* dataUrlToFile: no file when the data URL cannot be decoded.
dataUrlToFile(dataUrl, fileName, mimeType) ==
    IF ~dataUrl.present \/ ~dataUrl.decodable THEN NoFile
    ELSE File(IF mimeType # "" THEN mimeType
              ELSE IF dataUrl.mime # "" THEN dataUrl.mime
              ELSE guessMimeTypeFromFileName(fileName),
              "dataUrl")

\* What fetch(coverImage.url) ends with: a network error, a non-OK status,
\* or a blob with its type ("" when the response names none).
FetchOutcomes ==
    { [kind |-> "error", type |-> ""], [kind |-> "notOk", type |-> ""] } \cup
    [kind : {"blob"}, type : MimeTypes \cup {""}]

\* The test that decides whether buildCoverFile reaches its fetch call
\* (lines 499-512): no file came out of the data URL and there is a URL.
issuesFetch(coverImage) ==
    /\ ~dataUrlToFile(coverImage.dataUrl, deriveCoverFileName(coverImage), coverImage.mimeType).present
    /\ coverImage.hasUrl

\* buildCoverFile trying the network first and the data URL after it.
buildCoverFilePreferringFetch(coverImage, fetched) ==
    LET fileName == deriveCoverFileName(coverImage)
        fromData == dataUrlToFile(coverImage.dataUrl, fileName, coverImage.mimeType)
    IN IF coverImage.hasUrl /\ fetched.kind = "blob"
       THEN File(IF fetched.type # "" THEN fetched.type
                 ELSE IF coverImage.mimeType # "" THEN coverImage.mimeType
                 ELSE guessMimeTypeFromFileName(fileName),
                 "fetch")
       ELSE fromData

\* buildCoverFile (linkedin-inject.js lines 495-528, part_003 lines 687-720).
buildCoverFile(coverImage, fetched) ==
    LET fileName == deriveCoverFileName(coverImage)
        fromData == dataUrlToFile(coverImage.dataUrl, fileName, coverImage.mimeType)
    IN IF coverImage.dataUrl.present /\ fromData.present THEN fromData
       ELSE IF ~coverImage.hasUrl THEN NoFile
       ELSE IF fetched.kind # "blob" THEN NoFile
       ELSE File(IF fetched.type # "" THEN fetched.type
                 ELSE IF coverImage.mimeType # "" THEN coverImage.mimeType
                 ELSE guessMimeTypeFromFileName(fileName),
                 "fetch")

\* ensureCoverFileCompatibility (part_003 lines 803-850).  readable: the
\* file can be read back as a data URL; converted: the canvas re-encoding
\* to PNG yields a data URL that decodes.
ensureCoverFileCompatibility(file, coverImage, readable, converted) ==
    IF ~file.present THEN NoFile
    ELSE IF file.type \in AcceptedTypes THEN file
    ELSE IF ~coverImage.dataUrl.present /\ ~readable THEN file
    ELSE IF ~converted THEN file
    ELSE File("image/png", "converted")

CoverImages ==
    [given : {TRUE}, dataUrl : DataUrls, mimeType : MimeTypes \cup {""}, hasUrl : BOOLEAN,
     urlExtension : {".jpg", ".webp"}, fileName : {"", ".png", ".webp"}]

\* `response.coverImage || null`: no cover image came with the metadata.
NoCoverImage ==
    [given |-> FALSE, dataUrl |-> NoDataUrl, mimeType |-> "", hasUrl |-> FALSE,
     urlExtension |-> ".jpg", fileName |-> ""]

CoverVersions == { "strategies", "fileInput" }

InitCover ==
    /\ tabs = [t \in TargetTabIds |-> "absent"]
    /\ nextTabId = MaxClicks + 1
    /\ pendingTasks = << >>
    /\ wf = [w \in Workflows |-> IdleWorkflow]
    /\ alerts = {}
    /\ waiting = [t \in TargetTabIds |-> [k \in ScriptKinds |-> 0]]
    /\ responses = [t \in TargetTabIds |-> << >>]
    /\ inj = IdleInjector
    /\ ttl = IdleTitle
    /\ bdy = IdleBody
    /\ dsc = IdleDiscord
    /\ mnt = IdleWatcher
    /\ mdl = IdleModal
    /\ drp = IdleDrop
    /\ stb = IdleStability
    /\ ex = IdleExtractor
    /\ cov \in [pc : {"start"}, version : CoverVersions,
                coverImage : CoverImages \cup {NoCoverImage},
                file : {NoFile}, delivered : {NoFile}, logged : {"none"},
                buildRan : {FALSE}, builtFile : {NoFile}, fetchKind : {"none"},
                strategy : {0}, attempts : {<< >>}, previewAfter : {"none"},
                locatorTimedOut : {FALSE}]
    /\ we = IdleWait

\* The test of the argument before the try block: without a cover image
\* the call logs and returns.
SkipWithoutCover ==
    /\ cov.pc = "start"
    /\ ~cov.coverImage.given
    /\ cov' = [cov EXCEPT !.pc = "done", !.logged = "info"]
    /\ UNCHANGED <<coordVars, ex, we, inj, ttl, bdy, dsc, mnt, mdl, drp, stb>>

\* stageCoverImage up to the uploader root (and, in the file-input version,
\* the file input): found, or the call logs and returns.
LocateUploader(found) ==
    /\ cov.pc = "start"
    /\ cov.coverImage.given
    /\ cov' = [cov EXCEPT !.pc = IF found THEN "located" ELSE "done",
                          !.locatorTimedOut = ~found,
                          !.logged = IF found THEN "none" ELSE "warn"]
    /\ UNCHANGED <<coordVars, ex, we, inj, ttl, bdy, dsc, mnt, mdl, drp, stb>>

\* `await buildCoverFile(coverImage)` and the test of its result.
BuildCoverFile(fetched) ==
    /\ cov.pc = "located"
    /\ LET file == buildCoverFile(cov.coverImage, fetched)
       IN cov' = [cov EXCEPT !.file = file,
                             !.buildRan = TRUE,
                             !.builtFile = file,
                             !.fetchKind = IF issuesFetch(cov.coverImage) THEN fetched.kind
                                           ELSE "none",
                             !.pc = IF file.present THEN "built" ELSE "done",
                             !.logged = IF file.present THEN "none" ELSE "warn"]
    /\ UNCHANGED <<coordVars, ex, we, inj, ttl, bdy, dsc, mnt, mdl, drp, stb>>

\* part_003 line 351: `file = await ensureCoverFileCompatibility(...)`.
EnsureCompatibility(readable, converted) ==
    /\ cov.pc = "built"
    /\ cov.version = "fileInput"
    /\ LET file == ensureCoverFileCompatibility(cov.file, cov.coverImage, readable, converted)
       IN cov' = [cov EXCEPT !.file = file,
                             !.pc = IF file.present THEN "normalized" ELSE "done",
                             !.logged = IF file.present THEN "none" ELSE "warn"]
    /\ UNCHANGED <<coordVars, ex, we, inj, ttl, bdy, dsc, mnt, mdl, drp, stb>>

\* The file is handed to delivery: injectFileIntoInput(input, file) in the
\* file-input version, the first strategy handler in linkedin-inject.js.
DeliverFile ==
    /\ \/ cov.pc = "built" /\ cov.version = "strategies"
       \/ cov.pc = "normalized" /\ cov.version = "fileInput"
    /\ cov' = [cov EXCEPT !.delivered = cov.file, !.pc = "delivered",
                          !.strategy = IF cov.version = "strategies" THEN 1 ELSE 0]
    /\ UNCHANGED <<coordVars, ex, we, inj, ttl, bdy, dsc, mnt, mdl, drp, stb>>

\* The strategies array of stageCoverImage (lines 228-233), by name.
Strategies == << "file input", "simulated drop", "React drop handlers", "LinkedIn upload action" >>

\* What `await strategy.handler()` ends with: false because an element
\* lookup timed out (ensureCoverFileInput, the file input strategy only),
\* false for another reason, or true.
StrategyOutcomes == { "locatorTimeout", "failed", "executed" }

\* The loop goes on (lines 235-252): to the next strategy, or past the
\* last one to the final warning.
nextStrategy(c) ==
    IF c.strategy = Len(Strategies)
    THEN [c EXCEPT !.pc = "done", !.logged = "warn"]
    ELSE [c EXCEPT !.pc = "delivered", !.strategy = c.strategy + 1]

\* `await strategy.handler()` (lines 236-241).
StrategyRuns(outcome) ==
    /\ cov.pc = "delivered"
    /\ cov.version = "strategies"
    /\ outcome = "locatorTimeout" => cov.strategy = 1
    /\ LET ran == [cov EXCEPT !.attempts = Append(cov.attempts, Strategies[cov.strategy]),
                              !.locatorTimedOut = cov.locatorTimedOut \/ outcome = "locatorTimeout"]
       IN cov' = IF outcome = "executed" THEN [ran EXCEPT !.pc = "preview"]
                 ELSE nextStrategy(ran)
    /\ UNCHANGED <<coordVars, ex, we, inj, ttl, bdy, dsc, mnt, mdl, drp, stb>>

\* The preview wait going on to the next strategy whatever it found.
afterPreviewWaitContinuing(c, preview) ==
    nextStrategy([c EXCEPT !.previewAfter = IF preview /\ c.previewAfter = "none"
                                            THEN Strategies[c.strategy] ELSE c.previewAfter])

\* The test of what waitForCoverPreview returned (lines 243-250): with a
\* preview the call returns, without one the loop goes on.
afterPreviewWait(c, preview) ==
    IF preview
    THEN [c EXCEPT !.pc = "done", !.logged = "info", !.previewAfter = Strategies[c.strategy]]
    ELSE nextStrategy(c)

\* `await waitForCoverPreview(uploaderRoot, ...)` (lines 243, 333-347).
PreviewWait(preview) ==
    /\ cov.pc = "preview"
    /\ cov' = afterPreviewWait(cov, preview)
    /\ UNCHANGED <<coordVars, ex, we, inj, ttl, bdy, dsc, mnt, mdl, drp, stb>>

\* What follows injectFileIntoInput in the file-input version (part_003
\* lines 363-377): the preview shows up or not; either way the call logs
\* and returns.
FinishDelivery(preview) ==
    /\ cov.pc = "delivered"
    /\ cov.version = "fileInput"
    /\ cov' = [cov EXCEPT !.pc = "done", !.logged = IF preview THEN "info" ELSE "warn"]
    /\ UNCHANGED <<coordVars, ex, we, inj, ttl, bdy, dsc, mnt, mdl, drp, stb>>

\* The catch block of stageCoverImage with the error thrown again.
RethrowStagingError(c) ==
    [c EXCEPT !.pc = "rejected", !.logged = "error"]

\* The catch block of stageCoverImage (linkedin-inject.js lines 253-255,
\* part_003 lines 378-380): the error is logged and the call returns.
CatchStagingError(c) ==
    [c EXCEPT !.pc = "done", !.logged = "error"]

\* Any awaited step inside the try block throws or rejects: a DOM call on
\* a node the page removed, a strategy handler, the preview wait.
StepThrows ==
    /\ cov.pc \in {"start", "located", "built", "normalized", "delivered", "preview"}
    /\ cov.coverImage.given
    /\ cov' = CatchStagingError(cov)
    /\ UNCHANGED <<coordVars, ex, we, inj, ttl, bdy, dsc, mnt, mdl, drp, stb>>

NextCover ==
    \/ SkipWithoutCover
    \/ \E found \in BOOLEAN : LocateUploader(found)
    \/ \E fetched \in FetchOutcomes : BuildCoverFile(fetched)
    \/ \E readable \in BOOLEAN, converted \in BOOLEAN : EnsureCompatibility(readable, converted)
    \/ DeliverFile
    \/ \E outcome \in StrategyOutcomes : StrategyRuns(outcome)
    \/ \E preview \in BOOLEAN : PreviewWait(preview)
    \/ \E preview \in BOOLEAN : FinishDelivery(preview)
    \/ StepThrows

SpecCover == InitCover /\ [][NextCover]_vars

\* C8: the file handed to the delivery step has an accepted MIME type
\* (image/jpeg or image/png), also when re-encoding fails.
C8_DeliveredFileAccepted ==
    cov.pc = "delivered" => cov.delivered.type \in AcceptedTypes

\* C11: the promise of stageCoverImage never rejects; a call that has
\* ended has returned normally with a message logged.
C11_CoverStagingNeverRejects ==
    /\ cov.pc # "rejected"
    /\ cov.pc = "done" => cov.logged \in {"info", "warn", "error"}

C11_Witness ==
    /\ cov.pc = "done"
    /\ cov.logged = "error"
    /\ cov.file.present

UsableDataUrl(coverImage) == coverImage.dataUrl.present /\ coverImage.dataUrl.decodable

\* C35: buildCoverFile makes the file from the data URL whenever one is
\* present and convertible, and then issues no fetch; it fetches the image
\* URL only when there is no usable data URL, and returns no file exactly
\* when neither source yields bytes.
C35_DataUrlBeforeFetch ==
    cov.buildRan =>
        /\ UsableDataUrl(cov.coverImage) =>
              (cov.builtFile.present /\ cov.builtFile.source = "dataUrl" /\ cov.fetchKind = "none")
        /\ cov.fetchKind # "none" <=> (~UsableDataUrl(cov.coverImage) /\ cov.coverImage.hasUrl)
        /\ (cov.builtFile.present /\ cov.builtFile.source = "fetch") <=> cov.fetchKind = "blob"
        /\ ~cov.builtFile.present <=>
              (~UsableDataUrl(cov.coverImage) /\ cov.fetchKind \in {"none", "error", "notOk"})

C35_Witness ==
    /\ cov.buildRan
    /\ cov.coverImage.dataUrl.present
    /\ ~cov.coverImage.dataUrl.decodable
    /\ cov.fetchKind = "blob"
    /\ cov.builtFile.source = "fetch"

\* C33: within one stageCoverImage call the strategies are attempted in
\* the fixed order file input, simulated drop, framework drop handlers,
\* upload action, each at most once; the call ends at the first strategy
\* after which a preview is detected, and no strategy runs after it.
C33_StrategiesOnceInOrder ==
    /\ Len(cov.attempts) <= Len(Strategies)
    /\ \A i \in 1..Len(cov.attempts) : cov.attempts[i] = Strategies[i]
    /\ cov.previewAfter # "none" =>
          /\ cov.pc = "done"
          /\ cov.logged = "info"
          /\ cov.attempts # << >>
          /\ cov.attempts[Len(cov.attempts)] = cov.previewAfter
    /\ (cov.pc = "done" /\ cov.logged = "warn" /\ cov.attempts # << >>) =>
          (cov.previewAfter = "none" /\ Len(cov.attempts) = Len(Strategies))

C33_Witness ==
    /\ cov.pc = "done"
    /\ cov.attempts = << "file input", "simulated drop", "React drop handlers" >>
    /\ cov.previewAfter = "React drop handlers"

\* C34: a locator timeout inside cover staging never ends the call while
\* strategies remain untried: a call that met one ends with a preview or
\* with every strategy attempted.
C34_LocatorTimeoutTriesNext ==
    (cov.version = "strategies" /\ cov.locatorTimedOut /\ cov.pc = "done" /\ cov.logged # "error") =>
        (cov.previewAfter # "none" \/ Len(cov.attempts) = Len(Strategies))

-----------------------------------------------------------------------------
(* waitForElement of linkedin-inject.js: one call, the interval callback,  *)
(* the MutationObserver callback, and the document changing meanwhile.     *)

MaxAttempts == 3

MaxElements == 2

\* Elements that can match the selector, numbered in document order.
Elements == 1..MaxElements

NoElement == [found |-> FALSE, index |-> 0]

Element(i) == [found |-> TRUE, index |-> i]

\* "empty": a falsy selector; "invalid": one querySelector rejects with a
\* SyntaxError; "valid": any other.
Selectors == { "empty", "valid", "invalid" }

\* scope.querySelector(selector) for a valid selector: the first match in
\* document order, or null.
querySelector(dom) ==
    IF dom = {} THEN NoElement
    ELSE Element(CHOOSE i \in dom : \A j \in dom : i <= j)

\* resolve(value) with the observer left connected and the interval left
\* running.
SettleWithoutCleanup(w, value, timedOut) ==
    [w EXCEPT !.pc = "resolved", !.result = value, !.timedOut = timedOut]

\* cleanup() followed by resolve(value): the flag is set, the observer is
\* disconnected (its undelivered records are dropped) and the interval is
\* cleared.
Settle(w, value, timedOut) ==
    [w EXCEPT !.pc = "resolved", !.result = value, !.notify = FALSE, !.timedOut = timedOut,
              !.observerConnected = FALSE, !.intervalActive = FALSE]

\* attemptResolve (lines 125-134).
attemptResolve(w) ==
    IF w.pc # "pending" THEN w
    ELSE IF querySelector(w.dom).found THEN Settle(w, querySelector(w.dom), FALSE)
    ELSE w

\* The interval callback with the content check moved before the budget test.
IntervalCallbackCheckingFirst(w) ==
    LET counted == [w EXCEPT !.attempts = w.attempts + 1, !.tickChecks = w.tickChecks + 1]
        checked == attemptResolve(counted)
    IN IF checked.pc # "pending" THEN checked
       ELSE IF counted.attempts >= w.maxAttempts THEN Settle(counted, NoElement, TRUE)
       ELSE checked

\* The interval callback (lines 136-147).  tickChecks counts the callbacks
\* that went on to attemptResolve; it is not a variable of the code.
IntervalCallback(w) ==
    IF w.pc # "pending" THEN w
    ELSE LET counted == [w EXCEPT !.attempts = w.attempts + 1]
         IN IF counted.attempts >= w.maxAttempts THEN Settle(counted, NoElement, TRUE)
            ELSE attemptResolve([counted EXCEPT !.tickChecks = w.tickChecks + 1])

InitWait ==
    /\ tabs = [t \in TargetTabIds |-> "absent"]
    /\ nextTabId = MaxClicks + 1
    /\ pendingTasks = << >>
    /\ wf = [w \in Workflows |-> IdleWorkflow]
    /\ alerts = {}
    /\ waiting = [t \in TargetTabIds |-> [k \in ScriptKinds |-> 0]]
    /\ responses = [t \in TargetTabIds |-> << >>]
    /\ inj = IdleInjector
    /\ ttl = IdleTitle
    /\ bdy = IdleBody
    /\ dsc = IdleDiscord
    /\ mnt = IdleWatcher
    /\ mdl = IdleModal
    /\ drp = IdleDrop
    /\ stb = IdleStability
    /\ ex = IdleExtractor
    /\ cov = IdleCover
    /\ we \in [pc : {"idle"}, selector : {"empty"}, maxAttempts : {0}, observing : {FALSE},
               attempts : {0}, tickChecks : {0}, notify : {FALSE}, dom : SUBSET Elements,
               result : {NoElement}, timedOut : {FALSE},
               observerConnected : {FALSE}, intervalActive : {FALSE}]

\* The call: the Promise executor, run synchronously (lines 99-166).  An
\* exception thrown inside the executor rejects the promise.  observing is
\* FALSE when MutationObserver is unavailable or observe() throws.
CallWaitForElement(selector, maxAttempts, observing) ==
    /\ we.pc = "idle"
    /\ LET called == [we EXCEPT !.selector = selector, !.maxAttempts = maxAttempts,
                                !.observing = observing]
       IN we' = IF selector = "empty" THEN Settle(called, NoElement, FALSE)
                ELSE IF selector = "invalid" THEN [called EXCEPT !.pc = "rejected"]
                ELSE IF querySelector(we.dom).found
                     THEN Settle(called, querySelector(we.dom), FALSE)
                ELSE attemptResolve([called EXCEPT !.pc = "pending", !.intervalActive = TRUE,
                                                   !.observerConnected = observing])
    /\ UNCHANGED <<coordVars, ex, cov, inj, ttl, bdy, dsc, mnt, mdl, drp, stb>>

\* Tick with a callback that only counts the attempts.
TickOnlyCounting ==
    /\ we.intervalActive
    /\ ~we.notify
    /\ we' = IF we.attempts + 1 >= we.maxAttempts
             THEN Settle([we EXCEPT !.attempts = we.attempts + 1], NoElement, TRUE)
             ELSE [we EXCEPT !.attempts = we.attempts + 1]
    /\ UNCHANGED <<coordVars, ex, cov, inj, ttl, bdy, dsc, mnt, mdl, drp, stb>>

\* One firing of the setInterval timer.  Timer tasks run after the
\* microtasks, so after a pending observer notification.
Tick ==
    /\ we.intervalActive
    /\ ~we.notify
    /\ we' = IntervalCallback(we)
    /\ UNCHANGED <<coordVars, ex, cov, inj, ttl, bdy, dsc, mnt, mdl, drp, stb>>

\* Nodes are added to or removed from the observed subtree; the observer,
\* when attached, is notified (childList, subtree).
ChildListMutation(dom) ==
    /\ we.pc = "pending"
    /\ dom # we.dom
    /\ we' = [we EXCEPT !.dom = dom, !.notify = we.observerConnected]
    /\ UNCHANGED <<coordVars, ex, cov, inj, ttl, bdy, dsc, mnt, mdl, drp, stb>>

\* An attribute change makes present nodes start or stop matching the
\* selector; the observer does not watch attributes.
AttributeMutation(dom) ==
    /\ we.pc = "pending"
    /\ dom # we.dom
    /\ we' = [we EXCEPT !.dom = dom]
    /\ UNCHANGED <<coordVars, ex, cov, inj, ttl, bdy, dsc, mnt, mdl, drp, stb>>

\* The MutationObserver callback (lines 150-152).
ObserverCallback ==
    /\ we.observerConnected
    /\ we.notify
    /\ we' = attemptResolve([we EXCEPT !.notify = FALSE])
    /\ UNCHANGED <<coordVars, ex, cov, inj, ttl, bdy, dsc, mnt, mdl, drp, stb>>

NextWait ==
    \/ \E selector \in Selectors, maxAttempts \in 0..MaxAttempts, observing \in BOOLEAN :
           CallWaitForElement(selector, maxAttempts, observing)
    \/ Tick
    \/ \E dom \in SUBSET Elements : ChildListMutation(dom)
    \/ \E dom \in SUBSET Elements : AttributeMutation(dom)
    \/ ObserverCallback

SpecWait == InitWait /\ [][NextWait]_vars

\* Timers fire and observer notifications are delivered: a running
\* interval keeps ticking, a pending notification reaches the callback.
SpecWaitFair == SpecWait /\ WF_vars(Tick) /\ WF_vars(ObserverCallback)

\* C9 as stated, for a non-empty selector: an element result is the first
\* match; a null result comes exactly when maxAttempts ticks have passed,
\* and the content was checked at that last tick too, so nothing matches.
C9_NullOnlyAfterCheckedBudget ==
    (we.pc = "resolved" /\ we.selector = "valid" /\ we.maxAttempts >= 1) =>
        IF we.result.found THEN we.result = querySelector(we.dom)
        ELSE we.attempts = we.maxAttempts /\ ~querySelector(we.dom).found

\* C9 (amended): whenever the promise resolves, an element result is the
\* first match at that moment, found before the budget ran out; a null
\* result comes either at once for an empty selector, or from the tick
\* that brings attempts up to maxAttempts (the first tick when maxAttempts
\* is below 1), which does not look at the content: only the ticks before
\* it did.
C9_ResolutionRule ==
    LET budget == IF we.maxAttempts >= 1 THEN we.maxAttempts ELSE 1
    IN /\ we.tickChecks <= we.attempts
       /\ we.pc = "pending" => we.attempts < budget /\ we.tickChecks = we.attempts
       /\ (we.pc = "resolved" /\ we.result.found) =>
              /\ we.result = querySelector(we.dom)
              /\ ~we.timedOut
              /\ we.attempts < budget
              /\ we.tickChecks = we.attempts
       /\ (we.pc = "resolved" /\ ~we.result.found) =>
              \/ we.selector = "empty" /\ we.attempts = 0 /\ ~we.timedOut
              \/ /\ we.selector = "valid"
                 /\ we.timedOut
                 /\ we.attempts = budget
                 /\ we.tickChecks = budget - 1

C9_Witness ==
    /\ we.pc = "resolved"
    /\ we.selector = "valid"
    /\ ~we.result.found
    /\ we.timedOut
    /\ we.maxAttempts >= 2
    /\ we.attempts = we.maxAttempts
    /\ querySelector(we.dom).found

\* C10: the promise of waitForElement never rejects.
C10_NeverRejects ==
    we.pc # "rejected"

\* C24: once the promise is settled the observer is disconnected, no
\* notification is pending and the interval is cleared, and no later step
\* changes the result or anything else of the call.
C24_SettledOnceAndTornDown ==
    /\ [](we.pc = "resolved" =>
             ~we.observerConnected /\ ~we.notify /\ ~we.intervalActive)
    /\ [][we.pc = "resolved" => we' = we]_vars

C24_Witness ==
    /\ we.pc = "resolved"
    /\ we.result.found
    /\ we.observing
    /\ we.attempts >= 1
    /\ ~we.observerConnected
    /\ ~we.intervalActive

\* C25 as stated: a match that is there at any time before the budget is
\* used up leads to a resolution with an element, unless it goes away.
C25_MatchBeforeBudgetIsFound ==
    (we.pc = "pending" /\ we.dom # {})
        ~> ((we.pc = "resolved" /\ we.result.found) \/ we.dom = {})

\* C25 (amended): a match that is there while at least one checking tick
\* is left (attempts + 1 < maxAttempts) leads to a resolution with an
\* element, unless it goes away; the observer is not needed for that.
C25_MatchBeforeLastCheckIsFound ==
    (we.pc = "pending" /\ we.dom # {} /\ we.attempts + 1 < we.maxAttempts)
        ~> ((we.pc = "resolved" /\ we.result.found) \/ we.dom = {})

C25_Witness ==
    /\ we.pc = "resolved"
    /\ we.result.found
    /\ ~we.observing
    /\ we.attempts >= 1
    /\ we.tickChecks = we.attempts

-----------------------------------------------------------------------------
(* The main flow of linkedin-inject.js (lines 28-86): the metadata         *)
(* request, the title field, stageTitle, the start of cover staging, the   *)
(* body editor, stageBody, and the wait for the cover promise.             *)

\* resolveBodyHtml (lines 961-978), as far as the flow depends on it: the
\* trimmed bodyHtml, else a paragraph made of the source URL, else "".
resolveBodyHtml(html, fallbackText) ==
    IF html # "" THEN html
    ELSE IF fallbackText # "" THEN "<p>" \o fallbackText \o "</p>"
    ELSE ""

Responses ==
    [title : {"", "Title"}, sourceUrl : {"", "https://honzajavorek.cz/blog/post/"},
     bodyHtml : {"", "<p>Body</p>"}, hasCover : BOOLEAN]

InitInject ==
    /\ tabs = [t \in TargetTabIds |-> "absent"]
    /\ nextTabId = MaxClicks + 1
    /\ pendingTasks = << >>
    /\ wf = [w \in Workflows |-> IdleWorkflow]
    /\ alerts = {}
    /\ waiting = [t \in TargetTabIds |-> [k \in ScriptKinds |-> 0]]
    /\ responses = [t \in TargetTabIds |-> << >>]
    /\ dsc = IdleDiscord
    /\ mnt = IdleWatcher
    /\ mdl = IdleModal
    /\ drp = IdleDrop
    /\ stb = IdleStability
    /\ ex = IdleExtractor
    /\ cov = IdleCover
    /\ we = IdleWait
    /\ ttl = IdleTitle
    /\ bdy = IdleBody
    /\ inj \in [pc : {"request"}, response : Responses, stagedTitle : {"none"},
                titleStaged : {FALSE}, coverStarted : {FALSE}, coverSettled : {FALSE},
                bodyLookup : {FALSE}, bodyStaged : {FALSE}, maintained : {FALSE},
                outcome : {"running"}]

\* `await sendMessage(...)` and the test of the response (lines 30-35); a
\* rejected request lands in the catch block of the flow.
ResponseArrives(answer) ==
    /\ inj.pc = "request"
    /\ inj' = CASE answer = "success" -> [inj EXCEPT !.pc = "waitTitle"]
                [] answer = "failure" -> [inj EXCEPT !.pc = "done", !.outcome = "noMetadata"]
                [] OTHER -> [inj EXCEPT !.pc = "done", !.outcome = "error"]
    /\ UNCHANGED <<coordVars, ex, cov, we, ttl, bdy, dsc, mnt, mdl, drp, stb>>

\* `await waitForTitleField()` and everything up to the next await (lines
\* 39-63): without the field the flow returns; with it the title is
\* staged, stageCoverImage is called, and a flow without body content
\* returns.
TitleLookup(found) ==
    /\ inj.pc = "waitTitle"
    /\ inj' = IF ~found THEN [inj EXCEPT !.pc = "done", !.outcome = "noTitleField"]
              ELSE LET preferredTitle == IF inj.response.title # "" THEN inj.response.title
                                         ELSE inj.response.sourceUrl
                       preparedBodyHtml == resolveBodyHtml(inj.response.bodyHtml,
                                                           inj.response.sourceUrl)
                       staged == [inj EXCEPT !.titleStaged = TRUE,
                                             !.stagedTitle = preferredTitle,
                                             !.coverStarted = TRUE]
                   IN IF preparedBodyHtml = ""
                      THEN [staged EXCEPT !.pc = "done", !.outcome = "noBodyContent"]
                      ELSE [staged EXCEPT !.pc = "waitBody", !.bodyLookup = TRUE]
    /\ UNCHANGED <<coordVars, ex, cov, we, ttl, bdy, dsc, mnt, mdl, drp, stb>>

\* BodyLookup with a window.alert when the body editor is not found.
BodyLookupAlerting(found) ==
    /\ inj.pc = "waitBody"
    /\ inj' = IF found THEN [inj EXCEPT !.pc = "stageBody"]
              ELSE [inj EXCEPT !.pc = "done", !.outcome = "noBodyField"]
    /\ alerts' = IF found THEN alerts
                 ELSE alerts \cup {[tab |-> MaxClicks + 1,
                                    message |-> "Could not locate a stable LinkedIn article body editor."]}
    /\ UNCHANGED <<tabs, nextTabId, pendingTasks, wf, waiting, responses, ex, cov, we, ttl, bdy, dsc, mnt, mdl, drp, stb>>

\* `await waitForHydratedBodyField()` (lines 65-70).
BodyLookup(found) ==
    /\ inj.pc = "waitBody"
    /\ inj' = IF found THEN [inj EXCEPT !.pc = "stageBody"]
              ELSE [inj EXCEPT !.pc = "done", !.outcome = "noBodyField"]
    /\ UNCHANGED <<coordVars, ex, cov, we, ttl, bdy, dsc, mnt, mdl, drp, stb>>

\* BodyStaged held back until the cover promise has settled.
BodyStagedAfterCover(result) ==
    /\ inj.pc = "stageBody"
    /\ inj.coverSettled
    /\ inj' = CASE result = "injected" ->
                     [inj EXCEPT !.pc = "awaitCover", !.bodyStaged = TRUE, !.maintained = TRUE]
                [] result = "rejected" -> [inj EXCEPT !.pc = "done", !.outcome = "bodyRejected"]
                [] OTHER -> [inj EXCEPT !.pc = "done", !.outcome = "error"]
    /\ UNCHANGED <<coordVars, ex, cov, we, ttl, bdy, dsc, mnt, mdl, drp, stb>>

\* `await stageBody(...)` and what follows it (lines 74-82).
BodyStaged(result) ==
    /\ inj.pc = "stageBody"
    /\ inj' = CASE result = "injected" ->
                     [inj EXCEPT !.pc = "awaitCover", !.bodyStaged = TRUE, !.maintained = TRUE]
                [] result = "rejected" -> [inj EXCEPT !.pc = "done", !.outcome = "bodyRejected"]
                [] OTHER -> [inj EXCEPT !.pc = "done", !.outcome = "error"]
    /\ UNCHANGED <<coordVars, ex, cov, we, ttl, bdy, dsc, mnt, mdl, drp, stb>>

\* The promise of stageCoverImage settles; the call runs concurrently with
\* the rest of the flow from the moment it is made.
CoverSettles ==
    /\ inj.coverStarted
    /\ ~inj.coverSettled
    /\ inj' = [inj EXCEPT !.coverSettled = TRUE]
    /\ UNCHANGED <<coordVars, ex, cov, we, ttl, bdy, dsc, mnt, mdl, drp, stb>>

\* `await coverPromise` (lines 84-85).
CoverAwaited ==
    /\ inj.pc = "awaitCover"
    /\ inj.coverSettled
    /\ inj' = [inj EXCEPT !.pc = "done", !.outcome = "completed"]
    /\ UNCHANGED <<coordVars, ex, cov, we, ttl, bdy, dsc, mnt, mdl, drp, stb>>

NextInject ==
    \/ \E answer \in {"success", "failure", "rejected"} : ResponseArrives(answer)
    \/ \E found \in BOOLEAN : TitleLookup(found)
    \/ \E found \in BOOLEAN : BodyLookup(found)
    \/ \E result \in {"injected", "rejected", "threw"} : BodyStaged(result)
    \/ CoverSettles
    \/ CoverAwaited

SpecInject == InitInject /\ [][NextInject]_vars

\* C12: a flow that ended because the title field was never found has
\* still attempted cover staging and, when there is body content, the
\* lookup of the body editor.
C12_TitleTimeoutLeavesOthersAttempted ==
    (inj.pc = "done" /\ inj.outcome = "noTitleField") =>
        /\ inj.coverStarted
        /\ resolveBodyHtml(inj.response.bodyHtml, inj.response.sourceUrl) # "" => inj.bodyLookup

C32_BodyNeverWaitsForCover ==
    /\ inj.coverStarted => inj.titleStaged
    /\ inj.bodyLookup => inj.coverStarted
    /\ inj.pc \in {"waitBody", "stageBody"} => inj.coverStarted
    /\ inj.pc = "awaitCover" => (inj.bodyStaged /\ inj.coverStarted)
    /\ inj.outcome = "completed" => (inj.bodyStaged /\ inj.coverSettled)
    /\ inj.pc = "waitBody" => ENABLED BodyLookup(TRUE)
    /\ inj.pc = "stageBody" => ENABLED BodyStaged("injected")

C32_Witness ==
    /\ inj.pc = "awaitCover"
    /\ inj.bodyStaged
    /\ inj.coverStarted
    /\ ~inj.coverSettled

-----------------------------------------------------------------------------
(* stageTitle of linkedin-inject.js (lines 169-199): one call on a title   *)
(* field.  Strings are sequences of characters, so that trim() is computed.*)

MaxTitleLen == 2

Chars == { " ", "a" }

\* A title argument that is not a string (undefined, null, a number).
NotAString == << "undefined" >>

TitleStrings == UNION { [1..n -> Chars] : n \in 0..MaxTitleLen }

RECURSIVE TrimStart(_)
TrimStart(str) ==
    IF str # << >> /\ Head(str) = " " THEN TrimStart(Tail(str)) ELSE str

RECURSIVE TrimEnd(_)
TrimEnd(str) ==
    IF str # << >> /\ str[Len(str)] = " " THEN TrimEnd(SubSeq(str, 1, Len(str) - 1)) ELSE str

\* String.prototype.trim.
Trim(str) == TrimEnd(TrimStart(str))

\* `typeof title === "string" ? title.trim() : ""` (line 170).
finalTitle(title) == IF title = NotAString THEN << >> ELSE Trim(title)

TitleEvent(type, bubbles, inputType, t) ==
    [type |-> type, bubbles |-> bubbles, inputType |-> inputType, valueSeen |-> t.value]

\* focusTitle (lines 176-179).
focusTitle(t) ==
    [t EXCEPT !.focused = TRUE,
              !.events = Append(t.events, TitleEvent("focus", TRUE, "", t))]

\* writeTitle (lines 181-183): `element.value = title`.  The assignment
\* goes through the property lookup on the element: an own `value`
\* property installed by the framework (a value tracker that records the
\* value and passes it on to the prototype's setter) is what runs.
writeTitle(t, title) ==
    IF t.element = "overridden"
    THEN [t EXCEPT !.value = title, !.tracked = title,
                   !.overriddenSetterCalls = t.overriddenSetterCalls + 1]
    ELSE [t EXCEPT !.value = title]

\* dispatchTitleEvents (lines 185-199): the typed InputEvent is skipped
\* when its constructor throws.
dispatchTitleEvents(t, title) ==
    LET first == [t EXCEPT !.events = Append(t.events, TitleEvent("input", TRUE, "", t))]
        typed == IF t.inputEventSupported
                 THEN [first EXCEPT !.events =
                           Append(first.events, TitleEvent("input", TRUE, "insertText", first))]
                 ELSE first
    IN [typed EXCEPT !.events = Append(typed.events, TitleEvent("change", TRUE, "", typed))]

\* stageTitle with the events dispatched before the value is written.
stageTitleDispatchingFirst(t) ==
    IF t.element = "null" THEN [t EXCEPT !.pc = "threw"]
    ELSE [writeTitle(dispatchTitleEvents(focusTitle(t), finalTitle(t.title)),
                     finalTitle(t.title)) EXCEPT !.pc = "returned"]

\* stageTitle (lines 169-174).  On a null element the first statement of
\* focusTitle, `element.focus(...)`, throws a TypeError.
stageTitle(t) ==
    IF t.element = "null" THEN [t EXCEPT !.pc = "threw"]
    ELSE [dispatchTitleEvents(writeTitle(focusTitle(t), finalTitle(t.title)),
                              finalTitle(t.title)) EXCEPT !.pc = "returned"]

InitTitle ==
    /\ tabs = [t \in TargetTabIds |-> "absent"]
    /\ nextTabId = MaxClicks + 1
    /\ pendingTasks = << >>
    /\ wf = [w \in Workflows |-> IdleWorkflow]
    /\ alerts = {}
    /\ waiting = [t \in TargetTabIds |-> [k \in ScriptKinds |-> 0]]
    /\ responses = [t \in TargetTabIds |-> << >>]
    /\ dsc = IdleDiscord
    /\ mnt = IdleWatcher
    /\ mdl = IdleModal
    /\ drp = IdleDrop
    /\ stb = IdleStability
    /\ ex = IdleExtractor
    /\ cov = IdleCover
    /\ we = IdleWait
    /\ inj = IdleInjector
    /\ bdy = IdleBody
    /\ ttl \in [pc : {"call"}, element : {"null", "native", "overridden"},
                title : TitleStrings \cup {NotAString}, inputEventSupported : BOOLEAN,
                value : {<< >>, <<"a", "a">>}, tracked : {<< >>}, focused : {FALSE},
                overriddenSetterCalls : {0}, events : {<< >>}]

StageTitleCall ==
    /\ ttl.pc = "call"
    /\ ttl' = stageTitle(ttl)
    /\ UNCHANGED <<coordVars, ex, cov, we, inj, bdy, dsc, mnt, mdl, drp, stb>>

NextTitle == StageTitleCall

SpecTitle == InitTitle /\ [][NextTitle]_vars

\* C14: after stageTitle on a field, the field is focused and holds the
\* trimmed title; a bubbling input event was dispatched and a change event
\* after it; every input and change event saw the written value, and no
\* change event precedes an input event.
C14_WriteThenInputThenChange ==
    (ttl.pc = "returned") =>
        /\ ttl.focused
        /\ ttl.value = finalTitle(ttl.title)
        /\ \E i \in 1..Len(ttl.events) : ttl.events[i].type = "input" /\ ttl.events[i].bubbles
        /\ ttl.events[Len(ttl.events)].type = "change"
        /\ \A i \in 1..Len(ttl.events) :
               ttl.events[i].type \in {"input", "change"} =>
                   ttl.events[i].valueSeen = finalTitle(ttl.title)
        /\ \A i, j \in 1..Len(ttl.events) :
               (ttl.events[i].type = "change" /\ ttl.events[j].type = "input") => j < i

C14_Witness ==
    /\ ttl.pc = "returned"
    /\ ttl.title = <<" ", "a">>
    /\ ttl.value = <<"a">>
    /\ Len(ttl.events) = 4

\* C15: stageTitle called with a null element does not throw, writes
\* nothing and dispatches nothing.
C15_NullElementIsNoOp ==
    ttl.element = "null" => ttl.pc # "threw" /\ ttl.events = << >>

\* C16: the write of stageTitle does not run a value setter the framework
\* installed on the element.
C16_OverriddenSetterBypassed ==
    (ttl.pc = "returned" /\ ttl.element = "overridden") => ttl.overriddenSetterCalls = 0

-----------------------------------------------------------------------------
(* stageBody of linkedin-inject.js (lines 873-908): one call on a body     *)
(* editor, with the page re-rendering the editor between animation frames. *)
(* Markup is a sequence of tokens: whitespace, a character of text, an     *)
(* image, an empty paragraph.                                              *)

MaxHtmlLen == 2

HtmlTokens == { " ", "a", "<img>", "<p></p>" }

HtmlStrings == UNION { [1..n -> HtmlTokens] : n \in 0..MaxHtmlLen }

\* hasBodyContent looking at the text content only.
hasBodyContentTextOnly(given, editor) ==
    /\ given
    /\ editor.connected
    /\ \E i \in 1..Len(editor.content) : editor.content[i] = "a"

\* hasBodyContent (lines 980-995): connected, and trimmed text content or
\* one of the rich nodes of the selector list.
hasBodyContent(given, editor) ==
    /\ given
    /\ editor.connected
    /\ \E i \in 1..Len(editor.content) : editor.content[i] \in {"a", "<img>"}

\* What ClipboardEvent/DataTransfer and element.dispatchEvent end with.
PasteOutcomes == { "unsupported", "threw", "cancelled", "dispatched" }

\* simulatePaste with a thrown dispatch reported as a success.
simulatePasteCountingThrow(outcome) == outcome \in {"dispatched", "threw"}

\* simulatePaste (lines 1090-1117): FALSE without the clipboard classes,
\* FALSE from the catch block, else what dispatchEvent returned.
simulatePaste(outcome) == outcome = "dispatched"

\* What selectAllIn and document.execCommand("insertHTML") end with: no
\* selection object, no execCommand function, an exception, a false or a
\* true return value.
CommandOutcomes == { "noSelection", "unavailable", "threw", "refused", "inserted" }

\* replaceBodyContent assigning innerHTML whatever the command returned.
replaceBodyContentAssigningAlways(b, html, cmd) ==
    [b EXCEPT !.editor.content = html,
              !.usedDirect = TRUE,
              !.command = cmd,
              !.innerHtmlAssigned = TRUE,
              !.steps = (IF cmd \in {"noSelection", "unavailable"} THEN b.steps
                         ELSE Append(b.steps, "insertHTML")) \o <<"innerHTML">>]

\* replaceBodyContent (lines 915-930): execCommand("insertHTML") on the
\* selected contents when there is a selection and the function exists;
\* innerHTML is assigned when the command did not report an insertion.
replaceBodyContent(b, html, cmd) ==
    [b EXCEPT !.editor.content = html,
              !.usedDirect = TRUE,
              !.command = cmd,
              !.innerHtmlAssigned = (cmd # "inserted"),
              !.steps = (IF cmd \in {"noSelection", "unavailable"} THEN b.steps
                         ELSE Append(b.steps, "insertHTML"))
                        \o (IF cmd # "inserted" THEN <<"innerHTML">> ELSE << >>)]

InitBody ==
    /\ tabs = [t \in TargetTabIds |-> "absent"]
    /\ nextTabId = MaxClicks + 1
    /\ pendingTasks = << >>
    /\ wf = [w \in Workflows |-> IdleWorkflow]
    /\ alerts = {}
    /\ waiting = [t \in TargetTabIds |-> [k \in ScriptKinds |-> 0]]
    /\ responses = [t \in TargetTabIds |-> << >>]
    /\ dsc = IdleDiscord
    /\ mnt = IdleWatcher
    /\ mdl = IdleModal
    /\ drp = IdleDrop
    /\ stb = IdleStability
    /\ ex = IdleExtractor
    /\ cov = IdleCover
    /\ we = IdleWait
    /\ inj = IdleInjector
    /\ ttl = IdleTitle
    /\ bdy \in [pc : {"call"}, given : BOOLEAN, html : HtmlStrings,
                allowSimulatedPaste : BOOLEAN,
                editor : [connected : {TRUE}, content : {<< >>, <<"a">>}],
                paste : {"none"}, usedDirect : {FALSE}, eventsDispatched : {FALSE},
                command : {"none"}, innerHtmlAssigned : {FALSE},
                contentAfterPaste : {"unchecked"}, steps : {<< >>},
                result : {FALSE}]

\* stageBody up to its first await (lines 874-901).  editorInserts: the
\* editor's own paste handler put the markup in.
StageBodyCall(outcome, editorInserts, cmd) ==
    /\ bdy.pc = "call"
    /\ LET trimmed == Trim(bdy.html)
           pasted == [bdy EXCEPT !.paste = outcome,
                                 !.steps = <<"paste">>,
                                 !.editor.content =
                                     IF outcome \in {"cancelled", "dispatched"} /\ editorInserts
                                     THEN trimmed ELSE bdy.editor.content]
       IN bdy' =
            IF trimmed = << >> \/ ~bdy.given THEN [bdy EXCEPT !.pc = "done", !.result = FALSE]
            ELSE IF ~bdy.allowSimulatedPaste
                 THEN [replaceBodyContent(bdy, trimmed, cmd) EXCEPT
                           !.eventsDispatched = TRUE, !.pc = "final"]
            ELSE IF simulatePaste(outcome) THEN [pasted EXCEPT !.pc = "afterPaste"]
            ELSE [replaceBodyContent(pasted, trimmed, cmd) EXCEPT
                      !.eventsDispatched = TRUE, !.pc = "final"]
    /\ outcome = "unsupported" => ~editorInserts
    /\ outcome = "threw" => ~editorInserts
    /\ UNCHANGED <<coordVars, ex, cov, we, inj, ttl, dsc, mnt, mdl, drp, stb>>

\* After the frame that follows a successful paste (lines 889-901).
AfterPasteFrame(cmd) ==
    /\ bdy.pc = "afterPaste"
    /\ bdy' = [(IF hasBodyContent(bdy.given, bdy.editor)
                THEN [bdy EXCEPT !.contentAfterPaste = "present"]
                ELSE replaceBodyContent([bdy EXCEPT !.contentAfterPaste = "missing"],
                                        Trim(bdy.html), cmd)) EXCEPT
                   !.eventsDispatched = TRUE, !.pc = "final"]
    /\ hasBodyContent(bdy.given, bdy.editor) => cmd = "inserted"
    /\ UNCHANGED <<coordVars, ex, cov, we, inj, ttl, dsc, mnt, mdl, drp, stb>>

\* After the last frame (lines 903-908).
FinalFrame ==
    /\ bdy.pc = "final"
    /\ bdy' = [bdy EXCEPT !.pc = "done", !.result = hasBodyContent(bdy.given, bdy.editor)]
    /\ UNCHANGED <<coordVars, ex, cov, we, inj, ttl, dsc, mnt, mdl, drp, stb>>

\* While stageBody waits for a frame the page re-renders: the framework
\* empties the editor, or replaces the node, leaving the old one detached.
EditorRerenders(change) ==
    /\ bdy.pc \in {"afterPaste", "final"}
    /\ \/ change = "clear" /\ bdy.editor.content # << >>
          /\ bdy' = [bdy EXCEPT !.editor.content = << >>]
       \/ change = "detach" /\ bdy.editor.connected
          /\ bdy' = [bdy EXCEPT !.editor.connected = FALSE]
    /\ UNCHANGED <<coordVars, ex, cov, we, inj, ttl, dsc, mnt, mdl, drp, stb>>

NextBody ==
    \/ \E outcome \in PasteOutcomes, editorInserts \in BOOLEAN, cmd \in CommandOutcomes :
           StageBodyCall(outcome, editorInserts, cmd)
    \/ \E cmd \in CommandOutcomes : AfterPasteFrame(cmd)
    \/ FinalFrame
    \/ \E change \in {"clear", "detach"} : EditorRerenders(change)

SpecBody == InitBody /\ [][NextBody]_vars

HasText(content) == \E i \in 1..Len(content) : content[i] = "a"

\* C13 as stated: when the paste dispatch threw, the body was replaced
\* directly and the call returns true whenever the element ends with
\* non-empty text content.
C13_TextContentMeansTrue ==
    (bdy.pc = "done" /\ bdy.paste = "threw" /\ bdy.allowSimulatedPaste) =>
        /\ bdy.usedDirect
        /\ HasText(bdy.editor.content) => bdy.result

\* C13 (amended): when the paste dispatch threw, the exception is caught,
\* the body is replaced directly, and the call returns true exactly when
\* the element is still connected to the document and has non-empty text
\* content or a rich node.
C13_FallbackResult ==
    (bdy.pc = "done" /\ bdy.paste = "threw" /\ bdy.allowSimulatedPaste) =>
        /\ bdy.usedDirect
        /\ bdy.eventsDispatched
        /\ bdy.result = (bdy.editor.connected /\
                         \E i \in 1..Len(bdy.editor.content) :
                             bdy.editor.content[i] \in {"a", "<img>"})

C13_Witness ==
    /\ bdy.pc = "done"
    /\ bdy.paste = "threw"
    /\ bdy.usedDirect
    /\ bdy.result
    /\ HasText(bdy.editor.content)

StepRank(step) == CASE step = "paste" -> 1 [] step = "insertHTML" -> 2 [] OTHER -> 3

\* The strategies a call went through are in the order paste, insertHTML
\* command, innerHTML assignment, each at most once.
StepsInOrder(steps) ==
    \A i, j \in 1..Len(steps) : i < j => StepRank(steps[i]) < StepRank(steps[j])

PasteFailed(b) == b.paste \in {"unsupported", "threw", "cancelled"}

\* C29 as stated: the strategies run in the order paste, insertHTML
\* command, innerHTML; direct replacement is attempted only if the paste
\* dispatch failed or verification found no content after the paste, and
\* innerHTML is assigned only if the insertHTML command failed.
C29_DirectOnlyAfterPaste ==
    /\ StepsInOrder(bdy.steps)
    /\ bdy.usedDirect => (PasteFailed(bdy) \/ bdy.contentAfterPaste = "missing")
    /\ bdy.innerHtmlAssigned => bdy.command \in {"threw", "refused"}

\* C29 (amended): the strategies run in the order paste, insertHTML
\* command, innerHTML.  The paste is attempted only when simulated paste is
\* allowed.  Direct replacement is attempted exactly when paste was not
\* allowed, simulatePaste returned false, or verification found no content
\* after the paste.  innerHTML is assigned exactly when direct replacement
\* ran and the insertHTML command did not report an insertion: it threw,
\* returned false, or was not run for want of a selection or of
\* execCommand.
C29_StrategiesInOrder ==
    /\ StepsInOrder(bdy.steps)
    /\ bdy.paste # "none" => bdy.allowSimulatedPaste
    /\ bdy.pc \in {"final", "done"} /\ bdy.eventsDispatched =>
          (bdy.usedDirect <=> (\/ ~bdy.allowSimulatedPaste
                               \/ PasteFailed(bdy)
                               \/ bdy.contentAfterPaste = "missing"))
    /\ bdy.usedDirect => (\/ ~bdy.allowSimulatedPaste
                          \/ PasteFailed(bdy)
                          \/ bdy.contentAfterPaste = "missing")
    /\ bdy.innerHtmlAssigned <=>
          (bdy.usedDirect /\ bdy.command \in {"noSelection", "unavailable", "threw", "refused"})
    /\ bdy.command \in {"noSelection", "unavailable"} =>
          \A i \in 1..Len(bdy.steps) : bdy.steps[i] # "insertHTML"

C29_Witness ==
    /\ bdy.pc = "done"
    /\ bdy.paste = "dispatched"
    /\ bdy.contentAfterPaste = "missing"
    /\ bdy.command = "refused"
    /\ bdy.steps = <<"paste", "insertHTML", "innerHTML">>

HasRichNode(content) == \E i \in 1..Len(content) : content[i] = "<img>"

\* C30 as stated: the boolean stageBody returns equals "trimmed text
\* content non-empty or a rich node inside" evaluated on the element after
\* staging.
C30_ResultIsTextOrRichNode ==
    bdy.pc = "done" =>
        bdy.result = (HasText(bdy.editor.content) \/ HasRichNode(bdy.editor.content))

\* C30 (amended): content is judged present exactly when the element is
\* connected to the document and has non-empty trimmed text content or a
\* rich node inside; stageBody returns this judgement of the element after
\* staging when it was given an element and markup that is not blank, and
\* false without looking at the element otherwise.
C30_ResultIsConnectedContent ==
    bdy.pc = "done" =>
        bdy.result = (/\ bdy.given
                      /\ Trim(bdy.html) # << >>
                      /\ bdy.editor.connected
                      /\ HasText(bdy.editor.content) \/ HasRichNode(bdy.editor.content))

C30_Witness ==
    /\ bdy.pc = "done"
    /\ bdy.result
    /\ bdy.usedDirect
    /\ HasRichNode(bdy.editor.content)
    /\ ~HasText(bdy.editor.content)

-----------------------------------------------------------------------------
(* discord-inject.js: the URL request, waitForComposer and stageMessage.   *)

MaxComposerAttempts == 3

PostUrls == { << >>, <<"u">>, <<" ", "u">> }

\* What replaceComposerContent ends with: no selection object, insertText
\* took, insertHTML took, or neither command took.
ComposerCommands == { "noSelection", "insertText", "insertHTML", "neither" }

ComposerEvent(type, inputType) == [type |-> type, inputType |-> inputType]

\* stageMessage followed by an Enter key press on the composer.
stageMessageAndSend(d, command) ==
    [d EXCEPT !.pc = "staged",
              !.content = IF Head(d.postUrl) = " " THEN d.postUrl ELSE <<" ">> \o d.postUrl,
              !.events = d.events \o << ComposerEvent("focus", ""),
                                        ComposerEvent("input", "insertText"),
                                        ComposerEvent("keydown", "Enter") >>]

\* stageMessage (lines 48-69): focusComposer, the message with a leading
\* space, replaceComposerContent or textContent, the selection collapsed,
\* one InputEvent.
stageMessage(d, command) ==
    LET stagedMessage == IF Head(d.postUrl) = " " THEN d.postUrl ELSE <<" ">> \o d.postUrl
    IN [d EXCEPT !.pc = "staged",
                 !.content = stagedMessage,
                 !.writtenBy = IF command \in {"insertText", "insertHTML"} THEN command
                               ELSE "textContent",
                 !.events = d.events \o << ComposerEvent("focus", ""),
                                           ComposerEvent("input", "insertText") >>]

InitDiscord ==
    /\ tabs = [t \in TargetTabIds |-> "absent"]
    /\ nextTabId = MaxClicks + 1
    /\ pendingTasks = << >>
    /\ wf = [w \in Workflows |-> IdleWorkflow]
    /\ alerts = {}
    /\ waiting = [t \in TargetTabIds |-> [k \in ScriptKinds |-> 0]]
    /\ responses = [t \in TargetTabIds |-> << >>]
    /\ ex = IdleExtractor
    /\ cov = IdleCover
    /\ we = IdleWait
    /\ inj = IdleInjector
    /\ ttl = IdleTitle
    /\ bdy = IdleBody
    /\ mnt = IdleWatcher
    /\ mdl = IdleModal
    /\ drp = IdleDrop
    /\ stb = IdleStability
    /\ dsc \in [pc : {"request"}, postUrl : PostUrls, maxAttempts : 1..MaxComposerAttempts,
                composer : {"absent", "readonly", "editable"}, attempts : {0},
                content : {<< >>}, writtenBy : {"none"}, events : {<< >>},
                outcome : {"running"}]

\* `await sendMessage(...)` and the test of the response (lines 5-9).
UrlResponseArrives(answer) ==
    /\ dsc.pc = "request"
    /\ dsc' = CASE answer = "rejected" -> [dsc EXCEPT !.pc = "done", !.outcome = "error"]
                [] answer = "failure" \/ dsc.postUrl = << >> ->
                     [dsc EXCEPT !.pc = "done", !.outcome = "noUrl"]
                [] OTHER -> [dsc EXCEPT !.pc = "lookup"]
    /\ UNCHANGED <<coordVars, ex, cov, we, inj, ttl, bdy, mnt, mdl, drp, stb>>

\* One run of lookup() in waitForComposer (lines 27-42), and, when it
\* resolves, the rest of the flow (lines 12-18).
ComposerLookup(command) ==
    /\ dsc.pc = "lookup"
    /\ dsc' = IF dsc.composer = "editable" THEN stageMessage(dsc, command)
              ELSE IF dsc.attempts + 1 >= dsc.maxAttempts
                   THEN [dsc EXCEPT !.attempts = dsc.attempts + 1, !.pc = "done",
                                    !.outcome = "noComposer"]
              ELSE [dsc EXCEPT !.attempts = dsc.attempts + 1]
    /\ dsc.composer # "editable" => command = "neither"
    /\ UNCHANGED <<coordVars, ex, cov, we, inj, ttl, bdy, mnt, mdl, drp, stb>>

\* The Discord page renders or replaces its composer between lookups.
ComposerChanges(composer) ==
    /\ dsc.pc = "lookup"
    /\ composer # dsc.composer
    /\ dsc' = [dsc EXCEPT !.composer = composer]
    /\ UNCHANGED <<coordVars, ex, cov, we, inj, ttl, bdy, mnt, mdl, drp, stb>>

\* The requestAnimationFrame callback of stageMessage (lines 66-68): the
\* selection is collapsed once more.
FrameAfterStaging ==
    /\ dsc.pc = "staged"
    /\ dsc' = [dsc EXCEPT !.pc = "done", !.outcome = "staged"]
    /\ UNCHANGED <<coordVars, ex, cov, we, inj, ttl, bdy, mnt, mdl, drp, stb>>

NextDiscord ==
    \/ \E answer \in {"success", "failure", "rejected"} : UrlResponseArrives(answer)
    \/ \E command \in ComposerCommands : ComposerLookup(command)
    \/ \E composer \in {"absent", "readonly", "editable"} : ComposerChanges(composer)
    \/ FrameAfterStaging

SpecDiscord == InitDiscord /\ [][NextDiscord]_vars

\* C22: the Discord injector dispatches nothing but focus and input events
\* on the composer; when it has staged, the composer holds the URL.
C22_DiscordOnlyStages ==
    /\ \A i \in 1..Len(dsc.events) : dsc.events[i].type \in {"focus", "input"}
    /\ dsc.pc = "staged" =>
           /\ dsc.content = (IF Head(dsc.postUrl) = " " THEN dsc.postUrl
                             ELSE <<" ">> \o dsc.postUrl)
           /\ Len(dsc.events) = 2

C22_Witness ==
    /\ dsc.pc = "done"
    /\ dsc.outcome = "staged"
    /\ dsc.content = <<" ", "u">>
    /\ dsc.writtenBy = "textContent"
    /\ dsc.events = << ComposerEvent("focus", ""), ComposerEvent("input", "insertText") >>

-----------------------------------------------------------------------------
(* maintainBodyContent of linkedin-inject.js (lines 1130-1186): the watcher *)
(* started after the body was staged, with the user and the page acting on  *)
(* the editor.  The editor is absent, empty, holds the staged markup, or    *)
(* holds what the user typed.                                               *)

\* The restore attempts scheduled at 150, 600 and 1400 ms.
RestoreTimers == 3

FieldStates == { "absent", "empty", "staged", "typed" }

\* stop (lines 1139-1149): a no-op when already stopped; else clears the
\* flag, disconnects the observer (dropping its queued records) and removes
\* the input listener.
stop(m, cause) ==
    IF ~m.active THEN m
    ELSE [m EXCEPT !.active = FALSE,
                   !.observerConnected = FALSE,
                   !.pendingMutation = FALSE,
                   !.listenerAttached = FALSE,
                   !.stoppedBy = cause]

\* onUserInput (lines 1151-1158), the capturing listener on the document:
\* stops for every input event whose target is inside the body editor.
onUserInput(m, insideEditor, cause) ==
    IF m.listenerAttached /\ insideEditor THEN stop(m, cause) ELSE m

\* The synchronous part of stageBody(field, markup, textFallback, allowPaste)
\* (lines 873-899) on a field without content: the paste event when allowed,
\* the direct replacement, then dispatchBodyEvents (lines 945-959), whose
\* input events on the field reach the document's capturing listener.
restage(m, allowPaste) ==
    onUserInput([m EXCEPT !.field = "staged",
                          !.restages = m.restages + 1,
                          !.pastes = m.pastes + (IF allowPaste THEN 1 ELSE 0)],
                TRUE, "own")

\* tryRestoreBody handing stageBody the permission to paste.
tryRestoreBodyAllowingPaste(m) ==
    IF m.field \in {"absent", "staged", "typed"} THEN m ELSE restage(m, TRUE)

\* tryRestoreBody(html, plainText, false) (lines 1162-1168): nothing when
\* the field is missing or has content, else stageBody without paste.
tryRestoreBody(m) ==
    IF m.field \in {"absent", "staged", "typed"} THEN m ELSE restage(m, FALSE)

InitWatch ==
    /\ tabs = [t \in TargetTabIds |-> "absent"]
    /\ nextTabId = MaxClicks + 1
    /\ pendingTasks = << >>
    /\ wf = [w \in Workflows |-> IdleWorkflow]
    /\ alerts = {}
    /\ waiting = [t \in TargetTabIds |-> [k \in ScriptKinds |-> 0]]
    /\ responses = [t \in TargetTabIds |-> << >>]
    /\ ex = IdleExtractor
    /\ cov = IdleCover
    /\ we = IdleWait
    /\ inj = IdleInjector
    /\ ttl = IdleTitle
    /\ bdy = IdleBody
    /\ dsc = IdleDiscord
    /\ mdl = IdleModal
    /\ drp = IdleDrop
    /\ stb = IdleStability
    /\ \E html \in BOOLEAN :
         mnt = [pc |-> "start", html |-> html,
                field |-> IF html THEN "staged" ELSE "empty",
                active |-> FALSE, observerConnected |-> FALSE,
                listenerAttached |-> FALSE, pendingMutation |-> FALSE,
                restoreTimers |-> 0, stopTimer |-> FALSE,
                restages |-> 0, pastes |-> 0,
                stoppedBy |-> "none", userTyped |-> FALSE]

\* maintainBodyContent (lines 1130-1186): returns at once without markup;
\* else adds the listener, starts the observer and schedules the timers.
StartWatcher ==
    /\ mnt.pc = "start"
    /\ mnt' = IF ~mnt.html THEN [mnt EXCEPT !.pc = "off"]
              ELSE [mnt EXCEPT !.pc = "watching",
                               !.active = TRUE,
                               !.listenerAttached = TRUE,
                               !.observerConnected = TRUE,
                               !.stopTimer = TRUE,
                               !.restoreTimers = RestoreTimers]
    /\ UNCHANGED <<coordVars, ex, cov, we, inj, ttl, bdy, dsc, mdl, drp, stb>>

\* The user types into, or deletes everything from, the body editor, or
\* types somewhere else on the page; the browser fires an input event.
UserInput(insideEditor, effect) ==
    /\ mnt.pc = "watching"
    /\ insideEditor => mnt.field # "absent"
    /\ effect = "clear" => (insideEditor /\ mnt.field \in {"staged", "typed"})
    /\ mnt' = IF ~insideEditor THEN onUserInput(mnt, FALSE, "user")
              ELSE onUserInput([mnt EXCEPT !.field = IF effect = "clear" THEN "empty" ELSE "typed",
                                           !.userTyped = TRUE],
                               TRUE, "user")
    /\ UNCHANGED <<coordVars, ex, cov, we, inj, ttl, bdy, dsc, mdl, drp, stb>>

\* The page changes child nodes: it empties the editor, takes it out of the
\* document, mounts an empty one, or touches some other part of the tree.
\* A connected observer gets a record queued.
PageMutates(change) ==
    /\ mnt.pc = "watching"
    /\ change = "wipe" => mnt.field \in {"staged", "typed"}
    /\ change = "unmount" => mnt.field # "absent"
    /\ change = "remount" => mnt.field = "absent"
    /\ mnt' = [mnt EXCEPT !.field = CASE change = "wipe" -> "empty"
                                      [] change = "unmount" -> "absent"
                                      [] change = "remount" -> "empty"
                                      [] OTHER -> mnt.field,
                          !.pendingMutation = mnt.observerConnected]
    /\ UNCHANGED <<coordVars, ex, cov, we, inj, ttl, bdy, dsc, mdl, drp, stb>>

\* The MutationObserver callback (lines 1170-1175).
ObserverDelivers ==
    /\ mnt.pc = "watching"
    /\ mnt.observerConnected
    /\ mnt.pendingMutation
    /\ LET m == [mnt EXCEPT !.pendingMutation = FALSE]
       IN mnt' = IF ~m.active THEN m ELSE tryRestoreBody(m)
    /\ UNCHANGED <<coordVars, ex, cov, we, inj, ttl, bdy, dsc, mdl, drp, stb>>

\* One of the three scheduled restore attempts (lines 1183-1185); the
\* callbacks call tryRestoreBody without looking at the active flag.
RestoreTimerFires ==
    /\ mnt.pc = "watching"
    /\ mnt.restoreTimers > 0
    /\ mnt' = tryRestoreBody([mnt EXCEPT !.restoreTimers = mnt.restoreTimers - 1])
    /\ UNCHANGED <<coordVars, ex, cov, we, inj, ttl, bdy, dsc, mdl, drp, stb>>

\* The durationMs timer (lines 1179-1181), due after the restore attempts.
StopTimerFires ==
    /\ mnt.pc = "watching"
    /\ mnt.stopTimer
    /\ mnt.restoreTimers = 0
    /\ mnt' = stop([mnt EXCEPT !.stopTimer = FALSE], "timeout")
    /\ UNCHANGED <<coordVars, ex, cov, we, inj, ttl, bdy, dsc, mdl, drp, stb>>

NextWatch ==
    \/ StartWatcher
    \/ \E insideEditor \in BOOLEAN, effect \in {"type", "clear"} : UserInput(insideEditor, effect)
    \/ \E change \in {"wipe", "unmount", "remount", "elsewhere"} : PageMutates(change)
    \/ ObserverDelivers
    \/ RestoreTimerFires
    \/ StopTimerFires

SpecWatch == InitWatch /\ [][NextWatch]_vars

\* C26: once the watcher has detected an input event inside the body editor
\* it stays stopped and none of its triggers writes to the body element
\* again.
C26_InputStopsForGood ==
    [][(mnt.pc = "watching" /\ mnt.stoppedBy \in {"user", "own"}) =>
           (~mnt'.active /\ mnt'.restages = mnt.restages /\ mnt'.pastes = mnt.pastes)]_vars

\* C27: the watcher stops only on genuine user input in the body editor or
\* when its time budget expires, never on the events the extension itself
\* dispatches while re-staging.
C27_StopsOnlyOnUserInputOrExpiry ==
    (mnt.pc = "watching" /\ ~mnt.active) => mnt.stoppedBy \in {"user", "timeout"}

\* C28: while the watcher is active the user has not typed into the editor;
\* an observer callback that finds the editor without content then puts the
\* same markup back by direct replacement, and no re-stage of the watcher
\* dispatches a paste event.
C28_ObserverRestagesDirectly ==
    /\ [](mnt.pc = "watching" => mnt.pastes = 0)
    /\ []((mnt.pc = "watching" /\ mnt.active) => ~mnt.userTyped)
    /\ [][(ObserverDelivers /\ mnt.active /\ mnt.field = "empty") =>
              (mnt'.field = "staged" /\ mnt'.restages = mnt.restages + 1)]_vars

C28_Witness ==
    /\ mnt.pc = "watching"
    /\ mnt.restages = 1
    /\ mnt.restoreTimers = RestoreTimers
    /\ mnt.field = "staged"
    /\ mnt.pastes = 0
    /\ ~mnt.userTyped

-----------------------------------------------------------------------------
(* ensureCoverUploadModal and safeActivate of linkedin-inject.js (lines     *)
(* 389-493): one call.  The page has a trigger button for some of the five  *)
(* selectors; a trigger has some framework handlers on its props.  Whether  *)
(* the uploader shows up after an activation is up to the page.             *)

MaxTriggers == 2

MaxHandlers == 2

\* The triggers the selectors find, each with the number of functions among
\* the handler candidates of its props (lines 412-420).
TriggerLists == UNION { [1..n -> 0..MaxHandlers] : n \in 0..MaxTriggers }

\* safeActivate (lines 457-493): the events dispatched on the element.
safeActivate(pointerSupported) ==
    IF pointerSupported
    THEN << "pointerdown", "mousedown", "pointerup", "mouseup", "click" >>
    ELSE << "mousedown", "mouseup", "click" >>

InitModal ==
    /\ tabs = [t \in TargetTabIds |-> "absent"]
    /\ nextTabId = MaxClicks + 1
    /\ pendingTasks = << >>
    /\ wf = [w \in Workflows |-> IdleWorkflow]
    /\ alerts = {}
    /\ waiting = [t \in TargetTabIds |-> [k \in ScriptKinds |-> 0]]
    /\ responses = [t \in TargetTabIds |-> << >>]
    /\ ex = IdleExtractor
    /\ cov = IdleCover
    /\ we = IdleWait
    /\ inj = IdleInjector
    /\ ttl = IdleTitle
    /\ bdy = IdleBody
    /\ dsc = IdleDiscord
    /\ mnt = IdleWatcher
    /\ drp = IdleDrop
    /\ stb = IdleStability
    /\ mdl \in [pc : {"call"}, uploaderPresent : BOOLEAN, pointerSupported : BOOLEAN,
                triggers : TriggerLists, trigger : {0}, handler : {0},
                log : {<< >>}, outcome : {"running"}]

\* Lines 390-404: nothing is done when the uploader is in the document;
\* else the loop over the trigger selectors starts.
ModalCall ==
    /\ mdl.pc = "call"
    /\ mdl' = IF mdl.uploaderPresent THEN [mdl EXCEPT !.pc = "done", !.outcome = "present"]
              ELSE IF mdl.triggers = << >>
              THEN [mdl EXCEPT !.pc = "done", !.outcome = "unsuccessful"]
              ELSE [mdl EXCEPT !.pc = "trigger", !.trigger = 1, !.handler = 1]
    /\ UNCHANGED <<coordVars, ex, cov, we, inj, ttl, bdy, dsc, mnt, drp, stb>>

\* Lines 422-431 and 438-440: the next handler candidate is called; one
\* that throws is logged and the loop goes to the next candidate.
InvokeHandler(threw) ==
    /\ mdl.pc = "trigger"
    /\ mdl.handler <= mdl.triggers[mdl.trigger]
    /\ LET called == [mdl EXCEPT !.log = Append(mdl.log, [trigger |-> mdl.trigger, via |-> "handler",
                                                          events |-> <<"click">>])]
       IN mdl' = IF threw THEN [called EXCEPT !.handler = mdl.handler + 1]
                 ELSE [called EXCEPT !.pc = "afterHandler"]
    /\ UNCHANGED <<coordVars, ex, cov, we, inj, ttl, bdy, dsc, mnt, drp, stb>>

\* Lines 432-437: after the sleep the uploader is there, or the loop goes
\* to the next candidate.
AfterHandlerSleep(appears) ==
    /\ mdl.pc = "afterHandler"
    /\ mdl' = IF appears
              THEN [mdl EXCEPT !.pc = "done", !.uploaderPresent = TRUE, !.outcome = "handler"]
              ELSE [mdl EXCEPT !.pc = "trigger", !.handler = mdl.handler + 1]
    /\ UNCHANGED <<coordVars, ex, cov, we, inj, ttl, bdy, dsc, mnt, drp, stb>>

\* Line 444: past the handler candidates, safeActivate(trigger).
SyntheticActivation ==
    /\ mdl.pc = "trigger"
    /\ mdl.handler > mdl.triggers[mdl.trigger]
    /\ mdl' = [mdl EXCEPT !.pc = "afterSynthetic",
                          !.log = Append(mdl.log, [trigger |-> mdl.trigger, via |-> "synthetic",
                                                   events |-> safeActivate(mdl.pointerSupported)])]
    /\ UNCHANGED <<coordVars, ex, cov, we, inj, ttl, bdy, dsc, mnt, drp, stb>>

\* Lines 445-454: after the sleep the uploader is there, or the loop goes
\* to the next trigger, or ends with a warning.
AfterSyntheticSleep(appears) ==
    /\ mdl.pc = "afterSynthetic"
    /\ mdl' = IF appears
              THEN [mdl EXCEPT !.pc = "done", !.uploaderPresent = TRUE, !.outcome = "synthetic"]
              ELSE IF mdl.trigger = Len(mdl.triggers)
              THEN [mdl EXCEPT !.pc = "done", !.outcome = "unsuccessful"]
              ELSE [mdl EXCEPT !.pc = "trigger", !.trigger = mdl.trigger + 1, !.handler = 1]
    /\ UNCHANGED <<coordVars, ex, cov, we, inj, ttl, bdy, dsc, mnt, drp, stb>>

NextModal ==
    \/ ModalCall
    \/ \E threw \in BOOLEAN : InvokeHandler(threw)
    \/ \E appears \in BOOLEAN : AfterHandlerSleep(appears)
    \/ SyntheticActivation
    \/ \E appears \in BOOLEAN : AfterSyntheticSleep(appears)

SpecModal == InitModal /\ [][NextModal]_vars

ActivatedVia(via, trigger) ==
    \E i \in 1..Len(mdl.log) : mdl.log[i].via = via /\ mdl.log[i].trigger = trigger

\* C36: nothing is activated when the uploader exists already; a trigger
\* gets the synthetic pointerdown, mousedown, pointerup, mouseup, click
\* sequence only when no framework handler was found for it, so no trigger
\* is activated both through a handler and through synthetic events.
C36_HandlerOrSyntheticNotBoth ==
    /\ mdl.outcome = "present" => mdl.log = << >>
    /\ \A i \in 1..Len(mdl.log) :
          mdl.log[i].via = "synthetic" =>
              /\ mdl.log[i].events \in { safeActivate(TRUE), safeActivate(FALSE) }
              /\ mdl.triggers[mdl.log[i].trigger] = 0
              /\ ~ActivatedVia("handler", mdl.log[i].trigger)

-----------------------------------------------------------------------------
(* simulateCoverDrop of linkedin-inject.js (lines 651-716): one call, with  *)
(* the awaits between the four dispatches.                                  *)

DragSequence == << "dragenter", "dragover", "drop", "dragend" >>

NoTransfer == [id |-> 0, holdsFile |-> FALSE, getAsFile |-> "none", dropEffect |-> "none"]

\* Lines 657-682: the DataTransfer with the file added, getAsFile defined
\* on its first item when the item has none, dropEffect set to "copy" when
\* the property can be defined.
buildTransfer(d) ==
    [id |-> 1, holdsFile |-> TRUE,
     getAsFile |-> IF d.nativeGetAsFile THEN "native"
                   ELSE IF d.overridable THEN "defined" ELSE "missing",
     dropEffect |-> IF d.definable THEN "copy" ELSE "default"]

\* The event init (lines 685-697): the centre of the target's rectangle,
\* the origin for a target that is not an HTMLElement.
DragEvent(type, transfer, target) ==
    [type |-> type, dataTransfer |-> transfer,
     at |-> IF target = "htmlElement" THEN "centre" ELSE "origin"]

\* dispatch building a transfer object of its own for every event.
dispatchWithOwnTransfer(d, type) ==
    [d EXCEPT !.events = Append(d.events,
                                DragEvent(type, [d.transfer EXCEPT !.id = Len(d.events) + 1],
                                          d.target))]

\* dispatch (lines 689-699): a DragEvent of the type on the target.
dispatch(d, type) ==
    [d EXCEPT !.events = Append(d.events, DragEvent(type, d.transfer, d.target))]

\* The catch block (lines 712-715).
dropFailed(d) == [d EXCEPT !.pc = "done", !.result = "false"]

InitDrop ==
    /\ tabs = [t \in TargetTabIds |-> "absent"]
    /\ nextTabId = MaxClicks + 1
    /\ pendingTasks = << >>
    /\ wf = [w \in Workflows |-> IdleWorkflow]
    /\ alerts = {}
    /\ waiting = [t \in TargetTabIds |-> [k \in ScriptKinds |-> 0]]
    /\ responses = [t \in TargetTabIds |-> << >>]
    /\ ex = IdleExtractor
    /\ cov = IdleCover
    /\ we = IdleWait
    /\ inj = IdleInjector
    /\ ttl = IdleTitle
    /\ bdy = IdleBody
    /\ dsc = IdleDiscord
    /\ mnt = IdleWatcher
    /\ mdl = IdleModal
    /\ stb = IdleStability
    /\ drp \in [pc : {"call"}, target : {"none", "element", "htmlElement"}, file : BOOLEAN,
                supported : BOOLEAN, nativeGetAsFile : BOOLEAN, overridable : BOOLEAN,
                definable : BOOLEAN, transfer : {NoTransfer}, events : {<< >>},
                result : {"none"}]

\* Lines 652-701: the argument test, the transfer, and dragenter.  added:
\* transfer.items.add(file) went through; threw: the dispatch threw.
DropCall(added, threw) ==
    /\ drp.pc = "call"
    /\ ~added => ~threw
    /\ drp' = IF drp.target = "none" \/ ~drp.file \/ ~drp.supported THEN dropFailed(drp)
              ELSE IF ~added \/ threw
              THEN dropFailed([drp EXCEPT !.transfer = IF added THEN buildTransfer(drp)
                                                       ELSE NoTransfer])
              ELSE [dispatch([drp EXCEPT !.transfer = buildTransfer(drp)], DragSequence[1])
                        EXCEPT !.pc = "dispatching"]
    /\ UNCHANGED <<coordVars, ex, cov, we, inj, ttl, bdy, dsc, mnt, mdl, stb>>

\* Lines 702-711: after nextFrame, sleep(30) and nextFrame, the next event
\* of the sequence; after dragend the call returns true.
DropStep(threw) ==
    /\ drp.pc = "dispatching"
    /\ LET type == DragSequence[Len(drp.events) + 1]
           sent == dispatch(drp, type)
       IN drp' = IF threw THEN dropFailed(drp)
                 ELSE IF type = "dragend" THEN [sent EXCEPT !.pc = "done", !.result = "true"]
                 ELSE sent
    /\ UNCHANGED <<coordVars, ex, cov, we, inj, ttl, bdy, dsc, mnt, mdl, stb>>

NextDrop ==
    \/ \E added \in BOOLEAN, threw \in BOOLEAN : DropCall(added, threw)
    \/ \E threw \in BOOLEAN : DropStep(threw)

SpecDrop == InitDrop /\ [][NextDrop]_vars

\* C37: the events simulateCoverDrop dispatches are dragenter, dragover,
\* drop, dragend in that order, each once; every event carries the one
\* transfer object that holds the file; the call returns true exactly when
\* the whole sequence has been dispatched, and false when a dispatch threw.
C37_DropSequence ==
    /\ Len(drp.events) <= Len(DragSequence)
    /\ \A i \in 1..Len(drp.events) :
          /\ drp.events[i].type = DragSequence[i]
          /\ drp.events[i].dataTransfer = drp.transfer
          /\ drp.events[i].dataTransfer.holdsFile
    /\ drp.result = "true" <=> (drp.pc = "done" /\ Len(drp.events) = Len(DragSequence))
    /\ drp.pc = "done" => drp.result \in {"true", "false"}

C37_Witness ==
    /\ drp.pc = "done"
    /\ drp.result = "true"
    /\ Len(drp.events) = 4
    /\ drp.events[4].type = "dragend"

-----------------------------------------------------------------------------
(* waitForBodyStability of linkedin-inject.js (lines 1015-1088): one call.  *)
(* Time is counted in periods of the interval timer; idleMs and timeoutMs   *)
(* are whole numbers of periods.  The document holds at most one element    *)
(* matching the body selector at a time; elements are numbered in the order *)
(* the page creates them, 0 standing for none.                              *)

MaxTimeout == 3

MaxFields == 2

NoField == [id |-> 0, editable |-> FALSE]

\* updateLatest without the restart of the idle period.
updateLatestKeepingDeadline(b) ==
    [b EXCEPT !.latestField = IF b.doc.id # 0 /\ b.doc.editable THEN b.doc.id
                              ELSE b.latestField]

\* updateLatest (lines 1026-1032): the element the selector finds now, when
\* it is content-editable, becomes the latest field; the idle period
\* restarts.
updateLatest(b) ==
    [b EXCEPT !.latestField = IF b.doc.id # 0 /\ b.doc.editable THEN b.doc.id
                              ELSE b.latestField,
              !.lastMutation = b.now]

\* The relevance test of the observer callback (lines 1036-1052): a record
\* whose target is inside the body element, or one that adds an element
\* matching the selector itself.
Relevant(kind) == kind \in {"inside", "replaceDirect"}

\* The resolution of lines 1070-1074 and 1082-1085: the latest field when
\* it is connected, else what the selector finds in the document.
settleStability(b, by) ==
    [b EXCEPT !.pc = "resolved",
              !.observerConnected = FALSE,
              !.intervalActive = FALSE,
              !.result = IF b.latestField # 0 /\ b.latestField = b.doc.id THEN b.latestField
                         ELSE b.doc.id,
              !.resolvedBy = by,
              !.resolutions = b.resolutions + 1]

InitStability ==
    /\ tabs = [t \in TargetTabIds |-> "absent"]
    /\ nextTabId = MaxClicks + 1
    /\ pendingTasks = << >>
    /\ wf = [w \in Workflows |-> IdleWorkflow]
    /\ alerts = {}
    /\ waiting = [t \in TargetTabIds |-> [k \in ScriptKinds |-> 0]]
    /\ responses = [t \in TargetTabIds |-> << >>]
    /\ ex = IdleExtractor
    /\ cov = IdleCover
    /\ we = IdleWait
    /\ inj = IdleInjector
    /\ ttl = IdleTitle
    /\ bdy = IdleBody
    /\ dsc = IdleDiscord
    /\ mnt = IdleWatcher
    /\ mdl = IdleModal
    /\ drp = IdleDrop
    /\ \E given \in BOOLEAN, editable \in BOOLEAN, idleMs \in 1..(MaxTimeout + 1),
          timeoutMs \in 1..MaxTimeout :
         stb = [pc |-> "call", initialGiven |-> given, idleMs |-> idleMs, timeoutMs |-> timeoutMs,
                now |-> 0, lastMutation |-> 0, lastRelevant |-> 0,
                doc |-> IF given THEN [id |-> 1, editable |-> editable] ELSE NoField,
                nextId |-> 2, latestField |-> IF given THEN 1 ELSE 0,
                observerConnected |-> FALSE, intervalActive |-> FALSE, ceilingPending |-> FALSE,
                result |-> 0, resolvedBy |-> "none", resolutions |-> 0]

\* Lines 1016-1087 up to the return of the executor: null for a missing
\* initial field; else updateLatest, the observer, the interval and the
\* ceiling timer.
StabilityCall ==
    /\ stb.pc = "call"
    /\ stb' = IF ~stb.initialGiven
              THEN [stb EXCEPT !.pc = "resolved", !.result = 0, !.resolvedBy = "noField",
                               !.resolutions = stb.resolutions + 1]
              ELSE [updateLatest(stb) EXCEPT !.pc = "waiting",
                                             !.observerConnected = TRUE,
                                             !.intervalActive = TRUE,
                                             !.ceilingPending = TRUE]
    /\ UNCHANGED <<coordVars, ex, cov, we, inj, ttl, bdy, dsc, mnt, mdl, drp>>

\* The page changes the document and the observer callback runs (lines
\* 1036-1056): a change inside the body element, the element replaced by a
\* new one added on its own or inside a new subtree, or the element removed.
EditorMutates(kind, editable) ==
    /\ stb.pc = "waiting"
    /\ kind \in {"inside", "remove"} => stb.doc.id # 0
    /\ kind \in {"replaceDirect", "replaceWrapped"} => stb.nextId <= MaxFields
    /\ kind = "remove" => ~editable
    /\ LET changed == [stb EXCEPT
                          !.doc = CASE kind = "inside" -> [id |-> stb.doc.id, editable |-> editable]
                                    [] kind = "remove" -> NoField
                                    [] OTHER -> [id |-> stb.nextId, editable |-> editable],
                          !.nextId = IF kind \in {"replaceDirect", "replaceWrapped"}
                                     THEN stb.nextId + 1 ELSE stb.nextId,
                          !.lastRelevant = IF Relevant(kind) THEN stb.now ELSE stb.lastRelevant]
       IN stb' = IF stb.observerConnected /\ Relevant(kind) THEN updateLatest(changed)
                 ELSE changed
    /\ UNCHANGED <<coordVars, ex, cov, we, inj, ttl, bdy, dsc, mnt, mdl, drp>>

\* One period passes and the interval callback runs (lines 1065-1076).
StabilityTick ==
    /\ stb.pc = "waiting"
    /\ stb.intervalActive
    /\ stb.now < stb.timeoutMs
    /\ LET later == [stb EXCEPT !.now = stb.now + 1]
       IN stb' = IF later.now - later.lastMutation >= later.idleMs
                 THEN settleStability(later, "idle")
                 ELSE later
    /\ UNCHANGED <<coordVars, ex, cov, we, inj, ttl, bdy, dsc, mnt, mdl, drp>>

\* The timeoutMs timer (lines 1078-1086); with the call still waiting it is
\* due when the clock has reached the ceiling.
CeilingFires ==
    /\ stb.ceilingPending
    /\ stb.pc = "waiting" => stb.now = stb.timeoutMs
    /\ stb' = IF stb.pc = "resolved" THEN [stb EXCEPT !.ceilingPending = FALSE]
              ELSE settleStability([stb EXCEPT !.ceilingPending = FALSE], "ceiling")
    /\ UNCHANGED <<coordVars, ex, cov, we, inj, ttl, bdy, dsc, mnt, mdl, drp>>

NextStability ==
    \/ StabilityCall
    \/ \E kind \in {"inside", "replaceDirect", "replaceWrapped", "remove"}, editable \in BOOLEAN :
          EditorMutates(kind, editable)
    \/ StabilityTick
    \/ CeilingFires

SpecStability == InitStability /\ [][NextStability]_vars

\* The timers of the page fire: the interval keeps ticking and the ceiling
\* timer runs when it is due.
SpecStabilityFair ==
    SpecStability /\ WF_vars(StabilityCall) /\ WF_vars(StabilityTick) /\ WF_vars(CeilingFires)

\* C31 as stated: waitForBodyStability resolves exactly once, and only
\* after an idle period of idleMs without relevant mutation or at the
\* ceiling; it yields a matching body element that is in the document.
C31_ResolvesIdleOrCeilingWithElement ==
    stb.pc = "resolved" =>
        /\ stb.resolutions = 1
        /\ \/ stb.resolvedBy = "idle" /\ stb.now - stb.lastRelevant >= stb.idleMs
           \/ stb.resolvedBy = "ceiling" /\ stb.now = stb.timeoutMs
        /\ stb.result # 0
        /\ stb.result = stb.doc.id

\* C31 (amended): given an initial field, waitForBodyStability resolves
\* exactly once, and only when no relevant mutation has been seen for
\* idleMs (every relevant mutation restarts the period) or when the
\* timeoutMs ceiling is reached; it resolves by the ceiling at the latest.
\* It yields the body element that is in the document at that moment,
\* never a detached one, and null when the document holds none.  Without an
\* initial field it resolves null at once.
C31_ResolvesOnceIdleOrCeiling ==
    /\ [](stb.pc \in {"waiting", "resolved"} =>
            /\ stb.resolutions <= 1
            /\ stb.now <= stb.timeoutMs
            /\ stb.pc = "resolved" =>
                  /\ stb.resolutions = 1
                  /\ ~stb.observerConnected /\ ~stb.intervalActive
                  /\ stb.result = stb.doc.id
                  /\ stb.resolvedBy = "noField" <=> ~stb.initialGiven
                  /\ stb.resolvedBy = "idle" => stb.now - stb.lastRelevant >= stb.idleMs
                  /\ stb.resolvedBy = "ceiling" => stb.now = stb.timeoutMs
            /\ stb.pc = "waiting" =>
                  /\ stb.ceilingPending
                  /\ stb.now - stb.lastRelevant < stb.idleMs)
    /\ [][stb.pc = "resolved" =>
            (stb'.result = stb.result /\ stb'.resolutions = stb.resolutions)]_vars
    /\ <>(stb.pc = "resolved")

C31_Witness ==
    /\ stb.pc = "resolved"
    /\ stb.resolvedBy = "idle"
    /\ stb.lastRelevant > 0
    /\ stb.result = 2
    /\ stb.idleMs = 2

====
